---- MODULE Spec2Model ----
(***************************************************************************)
(* A model of the transferlens temporal data plane: the bitemporal signal  *)
(* store and its time-travel reads, the signal write paths, candidate      *)
(* selection, the training-set build and the scorer.                       *)
(*                                                                         *)
(* Timestamps are integers (one unit = one day at midnight), UUIDs         *)
(* are small strings or insertion counters.  A query whose result order    *)
(* SQL leaves unspecified, an ORDER BY RANDOM() and an unseeded random     *)
(* draw are modelled by the set of results the database or the generator   *)
(* may produce.                                                            *)
(***************************************************************************)
EXTENDS Integers, Sequences, FiniteSets, TLC

\* SQL NULL / Python None: NULL in an id or text column, None in a numeric or
\* timestamp column (a number no column of the model holds).
NULL == "NULL"
None == 0 - 1000000

\* The timestamps the model draws: a day before, at and after an as-of time.
Times == {0, 1, 2}

\* The number of signal rows the time-travel specification inserts.
MaxSignalRows == 2

Players == {"p1"}

VARIABLES
    signal_events,   \* table signal_events, a multiset of rows (see InsertRow)
    user_events,     \* table user_events
    response,        \* status of the last admin request: 0 (none), 201, 400 or 500
    transfer_events,       \* table transfer_events
    training_frame,        \* the rows the last build_training_features returned
    candidate_sets,        \* table candidate_sets
    feature_snapshots,     \* table feature_snapshots
    prediction_snapshots,  \* table prediction_snapshots
    candidates,            \* the list the last candidate selection returned
    clubs,                 \* table clubs, joined with its competition
    players,               \* table players
    model_versions,        \* table model_versions, with the stored artifacts
    player_market_view,    \* materialized view player_market_view as last refreshed
    stats,                 \* the stats the last run_predictions returned, with the
                           \* players it printed an error for
    daily,                 \* position, arguments and console log of daily:run
    inflight,              \* admin requests between their duplicate check and their commit
    limiter,               \* the clock, InMemoryRateLimiter._requests and the answers sent
    returned               \* what the last call of a read-only service function returned

\* The variables the signal write paths leave alone.
ml_vars ==
    <<transfer_events, training_frame, candidate_sets, feature_snapshots,
      prediction_snapshots, candidates, clubs, players, model_versions>>

\* The variables only the batch jobs' bookkeeping and daily:run write.
job_vars == <<player_market_view, stats, daily>>

\* The tables and results the request handlers and jobs work on.
store_vars == <<signal_events, user_events, response, ml_vars>>

\* The variables of the HTTP surface: requests in flight and the rate limiter.
api_vars == <<inflight, limiter, returned>>

vars == <<store_vars, job_vars, api_vars>>

\* daily:run before it is started.
DailyIdle == [pc |-> "idle", as_of |-> None, horizon |-> None, skip |-> {}, log |-> <<>>]

\* InMemoryRateLimiter.__init__ with its default limits: no client key seen
\* yet.  now is the clock in seconds; answers is the list of the answers the
\* middleware gave: client key, time and status.
LimiterIdle ==
    [now |-> 0, requests_per_minute |-> 60, burst_limit |-> 100, requests |-> <<>>,
     answers |-> <<>>]

\* No job has run, the view is empty as created WITH DATA over no snapshots;
\* no request is in flight.
InitJobs ==
    /\ player_market_view = {}
    /\ stats = [job |-> "none"]
    /\ daily = DailyIdle
    /\ inflight = {}
    /\ limiter = LimiterIdle
    /\ returned = [call |-> "none"]

\* A table is a multiset of rows: the primary key is a uuid4 that no query of
\* the program reads, so a row is told from an identical one by its copy
\* number, the count of rows with the same content when it was inserted.
SameContent(a, b) ==
    \A f \in (DOMAIN a) \ {"copy"} : a[f] = b[f]

InsertRow(table, row) ==
    table \cup {[row EXCEPT !.copy = 1 + Cardinality({o \in table : SameContent(o, row)})]}

(***************************************************************************)
(* signal_events: schema constraints                                       *)
(***************************************************************************)

\* ck_signal_entity_consistency
ck_signal_entity_consistency(r) ==
    \/ (r.entity_type = "player" /\ r.player_id # NULL /\ r.club_id = NULL)
    \/ (r.entity_type = "club" /\ r.club_id # NULL /\ r.player_id = NULL)
    \/ (r.entity_type = "club_player_pair" /\ r.player_id # NULL /\ r.club_id # NULL)

\* ck_signal_confidence_range; confidence is held in hundredths (Numeric(3,2))
ck_signal_confidence_range(r) == r.confidence >= 0 /\ r.confidence <= 100

\* ck_signal_effective_range
ck_signal_effective_range(r) ==
    r.effective_to = None \/ r.effective_to > r.effective_from

\* The checks without ck_signal_effective_range.
signal_events_checks_no_range(r) ==
    /\ ck_signal_entity_consistency(r)
    /\ ck_signal_confidence_range(r)

\* The row-level checks PostgreSQL applies to an INSERT into signal_events.
signal_events_checks(r) ==
    /\ ck_signal_entity_consistency(r)
    /\ ck_signal_confidence_range(r)
    /\ ck_signal_effective_range(r)

(***************************************************************************)
(* Time-travel read                                                        *)
(***************************************************************************)

\* The WHERE clause without its observed_at bound.
strict_where_unobserved(r, signal_type, as_of) ==
    /\ r.signal_type = signal_type
    /\ r.effective_from <= as_of
    /\ (r.effective_to = None \/ r.effective_to > as_of)

\* The WHERE clause shared by the three queries of get_signal_value_strict.
strict_where(r, signal_type, as_of) ==
    /\ r.signal_type = signal_type
    /\ r.observed_at <= as_of
    /\ r.effective_from <= as_of
    /\ (r.effective_to = None \/ r.effective_to > as_of)

\* The entity predicate of each branch: player_id = :entity_id, club_id =
\* :entity_id, or player_id = :player_id AND club_id = :club_id.
strict_entity(r, entity_type, entity_id, player_id, club_id) ==
    CASE entity_type = "player" -> r.player_id = entity_id
      [] entity_type = "club" -> r.club_id = entity_id
      [] entity_type = "pair" -> r.player_id = player_id /\ r.club_id = club_id
      [] OTHER -> FALSE

\* ORDER BY effective_from DESC, observed_at DESC LIMIT 1: the rows the
\* database may return first (rows equal on both keys come in any order).
strict_first(rows) ==
    {r \in rows : \A q \in rows :
        \/ q.effective_from < r.effective_from
        \/ (q.effective_from = r.effective_from /\ q.observed_at <= r.observed_at)}

\* get_signal_value_strict: the set of values the call may return.
get_signal_value_strict(store, entity_type, entity_id, signal_type, as_of, player_id, club_id) ==
    LET rows == {r \in store :
                    /\ strict_entity(r, entity_type, entity_id, player_id, club_id)
                    /\ strict_where(r, signal_type, as_of)}
    IN  IF entity_type \notin {"player", "club", "pair"} \/ rows = {}
        THEN {None}
        ELSE {r.value_num : r \in strict_first(rows)}  \* a NULL value_num reads as None

\* get_latest_signal_value delegates to get_signal_value_strict.
get_latest_signal_value(store, entity_type, entity_id, signal_type, as_of, player_id, club_id) ==
    get_signal_value_strict(store, entity_type, entity_id, signal_type, as_of, player_id, club_id)

(***************************************************************************)
(* Admin signal ingest                                                     *)
(***************************************************************************)

\* The row create_signal_event builds from the request body.
SignalRow(signal) ==
    [copy |-> 1, entity_type |-> signal.entity_type, player_id |-> signal.player_id,
     club_id |-> signal.club_id, signal_type |-> signal.signal_type,
     value_num |-> signal.value_num, source |-> signal.source,
     confidence |-> signal.confidence, observed_at |-> signal.observed_at,
     effective_from |-> signal.effective_from, effective_to |-> signal.effective_to]

\* The handler's own entity validation (HTTP 400 when it fails).
admin_entity_ok(signal) ==
    CASE signal.entity_type = "player" -> ~(signal.player_id = NULL \/ signal.club_id # NULL)
      [] signal.entity_type = "club" -> ~(signal.club_id = NULL \/ signal.player_id # NULL)
      [] signal.entity_type = "club_player_pair" ->
            ~(signal.player_id = NULL \/ signal.club_id = NULL)
      [] OTHER -> TRUE

\* POST /admin/signal_events
create_signal_event(signal) ==
    /\ Cardinality(signal_events) < MaxSignalRows
    /\ IF ~admin_entity_ok(signal)
       THEN /\ response' = 400
            /\ UNCHANGED signal_events
       ELSE LET row == SignalRow(signal)
            IN  IF signal_events_checks(row)
                THEN /\ signal_events' = InsertRow(signal_events, row)
                     /\ response' = 201
                ELSE /\ response' = 500   \* commit fails, rollback
                     /\ UNCHANGED signal_events
    /\ UNCHANGED <<user_events, ml_vars>>

(***************************************************************************)
(* Specification TimeTravel: admin ingest of player and pair rows over     *)
(* every combination of timestamps, read back at every as-of time.         *)
(***************************************************************************)

TimeTravelRequests ==
    [entity_type : {"player"}, player_id : Players, club_id : {NULL},
     signal_type : {"market_value"}, value_num : {1, 2}, source : {"admin"},
     confidence : {90}, observed_at : Times, effective_from : Times,
     effective_to : Times \cup {None}]
    \cup
    [entity_type : {"player"}, player_id : Players, club_id : {NULL},
     signal_type : {"market_value"}, value_num : {None}, source : {"admin"},
     confidence : {90}, observed_at : Times, effective_from : Times,
     effective_to : {None}]
    \cup
    [entity_type : {"club_player_pair"}, player_id : Players, club_id : {"c2"},
     signal_type : {"market_value"}, value_num : {2}, source : {"admin"},
     confidence : {90}, observed_at : Times, effective_from : Times,
     effective_to : {None}]

\* A clubs row with the competition it plays in.
Club(id, competition_id, comp_name, country, tier) ==
    [id |-> id, competition_id |-> competition_id, comp_name |-> comp_name,
     country |-> country, tier |-> tier, is_active |-> TRUE]

\* A small league fixture: the player's club, a league rival and a club of
\* another first-tier league.
ClubsSmall ==
    {Club("c1", "PL", "Premier League", "England", 1),
     Club("c2", "PL", "Premier League", "England", 1),
     Club("c3", "LL", "La Liga", "Spain", 1)}

\* The one player of the fixture, under contract at c1.
PlayersFixture ==
    {[id |-> "p1", name |-> "P1", current_club_id |-> "c1", position |-> "ST",
      date_of_birth |-> None, is_active |-> TRUE]}

\* The tables no specification of the signal store writes.
InitOtherTables ==
    /\ transfer_events = {}
    /\ training_frame = [horizon_days |-> None, rows |-> {}]
    /\ candidate_sets = {}
    /\ feature_snapshots = {}
    /\ prediction_snapshots = {}
    /\ candidates = <<>>
    /\ clubs = ClubsSmall
    /\ players = PlayersFixture
    /\ model_versions = {}

InitStore ==
    /\ signal_events = {}
    /\ user_events = {}
    /\ response = 0
    /\ InitOtherTables
    /\ InitJobs

NextTimeTravel ==
    \E signal \in TimeTravelRequests : create_signal_event(signal) /\ UNCHANGED <<job_vars, api_vars>>

SpecTimeTravel == InitStore /\ [][NextTimeTravel]_vars

\* The reads the claims quantify over: a player-level, a club-level and a
\* pair-level latest_signal.
Queries ==
    {[entity_type |-> "player", entity_id |-> "p1", player_id |-> NULL, club_id |-> NULL],
     [entity_type |-> "club", entity_id |-> "c2", player_id |-> NULL, club_id |-> NULL],
     [entity_type |-> "pair", entity_id |-> NULL, player_id |-> "p1", club_id |-> "c2"]}

latest_signal(store, q, signal_type, as_of) ==
    get_latest_signal_value(store, q.entity_type, q.entity_id, signal_type, as_of,
                            q.player_id, q.club_id)

\* The rows of signal type S that are known and in force at T.
EligibleAt(store, signal_type, as_of) ==
    {r \in store :
        /\ r.signal_type = signal_type
        /\ r.observed_at <= as_of
        /\ r.effective_from <= as_of
        /\ (r.effective_to = None \/ r.effective_to > as_of)}

\* The rows that belong to the entity a query names.
RowsOf(store, q) ==
    {r \in store :
        CASE q.entity_type = "player" ->
                r.entity_type = "player" /\ r.player_id = q.entity_id
          [] q.entity_type = "club" ->
                r.entity_type = "club" /\ r.club_id = q.entity_id
          [] OTHER ->
                /\ r.entity_type = "club_player_pair"
                /\ r.player_id = q.player_id /\ r.club_id = q.club_id}

\* C1, first half: a value latest_signal(E, S, T) returns is the value of a
\* row with observed_at <= T, effective_from <= T and effective_to null or > T.
C1_DrawnFromEligible ==
    \A q \in Queries, T \in Times :
        \A v \in latest_signal(signal_events, q, "market_value", T) :
            v # None => \E r \in EligibleAt(signal_events, "market_value", T) : r.value_num = v

\* C1: for every as-of time T, entity E and signal type S, latest_signal(E, S, T)
\* is drawn from rows with observed_at <= T, effective_from <= T and effective_to
\* null or > T, and a step that only inserts rows with observed_at > T leaves
\* the value it returns unchanged.
C1_FutureRowsInvisible ==
    [][ /\ C1_DrawnFromEligible'
        /\ \A T \in Times :
              (/\ signal_events \subseteq signal_events'
               /\ \A r \in signal_events' \ signal_events : r.observed_at > T)
              => \A q \in Queries :
                    latest_signal(signal_events', q, "market_value", T)
                        = latest_signal(signal_events, q, "market_value", T) ]_vars

\* C1 witness: at T = 1 a known row is read while a row observed at 2, already
\* effective at 0, sits in the store.
C1_Witness ==
    /\ \E r \in signal_events :
          r.observed_at = 2 /\ r.effective_from = 0 /\ r.effective_to = None /\ r.value_num = 2
    /\ latest_signal(signal_events, CHOOSE q \in Queries : q.entity_type = "player",
                     "market_value", 1) = {1}

\* C2: latest_signal(E, S, T) returns the value of the row with the greatest
\* effective_from among the eligible rows of E and S, and none exactly when no
\* such row exists (observed_at = effective_from = T is eligible, effective_to
\* = T is not).
C2_GreatestEffectiveFrom ==
    \A q \in Queries, T \in Times :
        LET elig == RowsOf(signal_events, q) \cap EligibleAt(signal_events, "market_value", T)
            top == {r \in elig : \A o \in elig : o.effective_from <= r.effective_from}
            res == latest_signal(signal_events, q, "market_value", T)
        IN  /\ elig = {} => res = {None}
            /\ elig # {} => None \notin res /\ res \subseteq {r.value_num : r \in top}

(***************************************************************************)
(* Signal derivation from user events                                      *)
(***************************************************************************)

\* The number of signal rows the write-path specification lets the table hold.
MaxWriteRows == 4

\* settings.derived_signal_confidence (0.6), in hundredths.
derived_signal_confidence == 60

Min(a, b) == IF a <= b THEN a ELSE b

\* compute_attention_velocity: one record per player with at least three
\* attention events in [as_of - window, as_of].
compute_attention_velocity(events, window, as_of) ==
    LET window_start == as_of - window
        \* occurred_at >= midpoint, with midpoint = as_of - window / 2
        recent(e) == 2 * e.occurred_at >= 2 * as_of - window
        counted(p) == {e \in events :
                          /\ e.player_id = p
                          /\ e.event_type \in {"player_view", "watchlist_add", "share"}
                          /\ e.occurred_at >= window_start
                          /\ e.occurred_at <= as_of}
        recent_views(p) == Cardinality({e \in counted(p) : recent(e)})
        older_views(p) == Cardinality({e \in counted(p) : ~recent(e)})
        older(p) == IF older_views(p) = 0 THEN 1 ELSE older_views(p)
        \* int(min(10.0, (recent + 1) / (older + 1)) * 100)
        velocity(p) == Min(1000, ((recent_views(p) + 1) * 100) \div (older(p) + 1))
    IN  {[player_id |-> p, velocity |-> velocity(p)] :
            p \in {e.player_id : e \in {x \in events :
                        x.player_id # NULL /\ Cardinality(counted(x.player_id)) >= 3}}}

\* compute_destination_cooccurrence: one record per (player, club) seen in at
\* least two common sessions in [as_of - window, as_of].
compute_destination_cooccurrence(events, window, as_of) ==
    LET window_start == as_of - window
        in_window(e) == e.occurred_at >= window_start /\ e.occurred_at <= as_of
        player_sessions == {<<e.session_id, e.player_id>> : e \in {x \in events :
                               /\ x.player_id # NULL
                               /\ x.event_type \in {"player_view", "watchlist_add"}
                               /\ in_window(x)}}
        club_sessions == {<<e.session_id, e.club_id>> : e \in {x \in events :
                               /\ x.club_id # NULL
                               /\ x.event_type = "club_view"
                               /\ in_window(x)}}
        session_count(p, c) == Cardinality({ps[1] : ps \in {x \in player_sessions :
                                   x[2] = p /\ <<x[1], c>> \in club_sessions}})
        pairs == {<<ps[2], cs[2]>> : ps \in player_sessions, cs \in club_sessions}
    IN  {[player_id |-> pc[1], club_id |-> pc[2],
          score |-> Min(100, session_count(pc[1], pc[2]) * 10)] :
            pc \in {x \in pairs : session_count(x[1], x[2]) >= 2}}

\* An upsert on (player_id, club_id, signal_type) in place of the INSERT.
write_signal_event_upsert(table, entity_type, player_id, club_id, signal_type, value_num, observed_at, effective_from) ==
    {r \in table : ~(r.player_id = player_id /\ r.club_id = club_id
                      /\ r.signal_type = signal_type)}
    \cup {[copy |-> 1, entity_type |-> entity_type, player_id |-> player_id,
            club_id |-> club_id, signal_type |-> signal_type, value_num |-> value_num,
            source |-> "tl_user_derived", confidence |-> derived_signal_confidence,
            observed_at |-> observed_at, effective_from |-> effective_from,
            effective_to |-> None]}

\* write_signal_event: a plain INSERT; the caller catches a failed one.
write_signal_event(table, entity_type, player_id, club_id, signal_type, value_num, observed_at, effective_from) ==
    LET row == [copy |-> 1, entity_type |-> entity_type, player_id |-> player_id,
                club_id |-> club_id, signal_type |-> signal_type, value_num |-> value_num,
                source |-> "tl_user_derived", confidence |-> derived_signal_confidence,
                observed_at |-> observed_at, effective_from |-> effective_from,
                effective_to |-> None]
    IN  IF signal_events_checks(row) THEN InsertRow(table, row) ELSE table

RECURSIVE write_attention_signals(_, _, _)
write_attention_signals(table, velocities, as_of) ==
    IF velocities = {} THEN table
    ELSE LET vel == CHOOSE v \in velocities : TRUE
         IN  write_attention_signals(
                 write_signal_event(table, "player", vel.player_id, NULL,
                                    "user_attention_velocity", vel.velocity, as_of, as_of),
                 velocities \ {vel}, as_of)

RECURSIVE write_cooccurrence_signals(_, _, _)
write_cooccurrence_signals(table, cooccurrences, as_of) ==
    IF cooccurrences = {} THEN table
    ELSE LET cooc == CHOOSE c \in cooccurrences : TRUE
         IN  write_cooccurrence_signals(
                 write_signal_event(table, "club_player_pair", cooc.player_id, cooc.club_id,
                                    "user_destination_cooccurrence", cooc.score, as_of, as_of),
                 cooccurrences \ {cooc}, as_of)

\* signals:derive
run_signal_derivation(window, as_of) ==
    LET velocities == compute_attention_velocity(user_events, window, as_of)
        attention == write_attention_signals(signal_events, velocities, as_of)
        cooccurrences == compute_destination_cooccurrence(user_events, window * 7, as_of)
        written == write_cooccurrence_signals(attention, cooccurrences, as_of)
    IN  /\ Cardinality(written) <= MaxWriteRows
        /\ signal_events' = written
        /\ UNCHANGED <<user_events, response, ml_vars>>

(***************************************************************************)
(* Specification SignalWrites: the paths that write signal_events -- admin *)
(* ingest with valid and invalid bodies, and derivation runs and re-runs   *)
(* over a fixed event log.  (ingest:demo, which truncates and reseeds      *)
(* every table, is development tooling outside the modelled system.)       *)
(***************************************************************************)

WriteRequests ==
    [entity_type : {"player", "club", "club_player_pair"}, player_id : {NULL, "p1"},
     club_id : {NULL, "c2"}, signal_type : {"market_value"}, value_num : {1},
     source : {"admin"}, confidence : {0 - 10, 90, 150}, observed_at : {1},
     effective_from : {1}, effective_to : {None, 0, 1, 2}]

UserEvent(session_id, event_type, player_id, club_id, occurred_at) ==
    [copy |-> 1, session_id |-> session_id, event_type |-> event_type,
     player_id |-> player_id, club_id |-> club_id, occurred_at |-> occurred_at]

\* The event logs the derivation runs over: empty, three views of a player,
\* and two sessions that each view the player and a club.
UserEventLogs ==
    {{},
     {UserEvent("s1", "player_view", "p1", NULL, t) : t \in Times},
     {UserEvent("s1", "player_view", "p1", NULL, 1), UserEvent("s1", "club_view", NULL, "c2", 1),
      UserEvent("s2", "player_view", "p1", NULL, 2), UserEvent("s2", "club_view", NULL, "c2", 2),
      UserEvent("s2", "watchlist_add", "p1", NULL, 2)}}

\* The --window values of the derivation runs, in days.
Windows == {1, 2}

InitSignalWrites ==
    /\ signal_events = {}
    /\ user_events \in UserEventLogs
    /\ response = 0
    /\ InitOtherTables
    /\ InitJobs

NextSignalWrites ==
    \/ \E signal \in WriteRequests : create_signal_event(signal) /\ UNCHANGED <<job_vars, api_vars>>
    \/ \E window \in Windows, as_of \in Times :
          run_signal_derivation(window, as_of) /\ UNCHANGED <<job_vars, api_vars>>

SpecSignalWrites == InitSignalWrites /\ [][NextSignalWrites]_vars

\* C8: every persisted signal row has entity_type consistent with its ids,
\* confidence in [0, 1] and effective_to null or later than effective_from; an
\* admin write whose row violates one of these is answered with an error and
\* leaves the table as it was.
C8_OnlyValidRowsPersist ==
    [][ /\ \A r \in signal_events' :
              /\ ck_signal_entity_consistency(r)
              /\ ck_signal_confidence_range(r)
              /\ ck_signal_effective_range(r)
        /\ \A signal \in WriteRequests :
              (/\ ~(/\ ck_signal_entity_consistency(SignalRow(signal))
                    /\ ck_signal_confidence_range(SignalRow(signal))
                    /\ ck_signal_effective_range(SignalRow(signal)))
               /\ create_signal_event(signal))
              => (signal_events' = signal_events /\ response' \in {400, 500}) ]_vars

\* C8 witness: a request rejected by a schema check (HTTP 500) next to
\* persisted rows, one ingested by the admin and one written by the derivation.
C8_Witness ==
    /\ response = 500
    /\ \E r \in signal_events : r.source = "tl_user_derived"
    /\ \E r \in signal_events : r.source = "admin"

position_map(position) ==
    CASE position = "ST" -> 1 [] position = "LW" -> 2 [] position = "RW" -> 3
      [] position = "CAM" -> 4 [] position = "CM" -> 5 [] position = "CDM" -> 6
      [] position = "CB" -> 7 [] position = "LB" -> 8 [] position = "RB" -> 9
      [] position = "GK" -> 10 [] OTHER -> 0

\* club.tier or 1
TierOr1(club) == IF club.tier = None \/ club.tier = 0 THEN 1 ELSE club.tier

\* build_player_features: the feature records the call may return (age is in
\* whole years; the fixture's players carry no date of birth).
build_player_features(store, player_id, as_of) ==
    LET found == {p \in players : p.id = player_id}
        player == CHOOSE p \in found : TRUE
        value(signal_type) == get_latest_signal_value(store, "player", player_id, signal_type,
                                                      as_of, NULL, NULL)
    IN  IF found = {} THEN {[none |-> TRUE]}
        ELSE {[none |-> FALSE,
               age |-> IF player.date_of_birth = None THEN None
                       ELSE ((as_of - player.date_of_birth) * 100) \div 36525,
               position_encoded |-> position_map(player.position),
               market_value |-> mv, contract_months_remaining |-> cm, goals_last_10 |-> g,
               assists_last_10 |-> a, minutes_last_5 |-> m, social_mention_velocity |-> s,
               user_attention_velocity |-> u] :
                 mv \in value("market_value"), cm \in value("contract_months_remaining"),
                 g \in value("goals_last_10"), a \in value("assists_last_10"),
                 m \in value("minutes_last_5"), s \in value("social_mention_velocity"),
                 u \in value("user_attention_velocity")}

\* build_club_features
build_club_features(store, club_id, as_of) ==
    LET found == {c \in clubs : c.id = club_id}
        value(signal_type) == get_latest_signal_value(store, "club", club_id, signal_type,
                                                      as_of, NULL, NULL)
    IN  {[club_tier |-> IF found = {} THEN None ELSE TierOr1(CHOOSE c \in found : TRUE),
          club_league_position |-> lp, club_points_per_game |-> ppg,
          club_net_spend_12m |-> ns] :
            lp \in value("club_league_position"), ppg \in value("club_points_per_game"),
            ns \in value("club_net_spend_12m")}

\* build_pair_features
build_pair_features(store, player_id, from_club_id, to_club_id, as_of) ==
    LET from_found == {c \in clubs : c.id = from_club_id}
        to_found == {c \in clubs : c.id = to_club_id}
        from_club == CHOOSE c \in from_found : TRUE
        to_club == CHOOSE c \in to_found : TRUE
        both == from_found # {} /\ to_found # {}
    IN  {[same_country |-> IF ~both THEN None
                           ELSE IF from_club.country = to_club.country THEN 1 ELSE 0,
          same_league |-> IF ~both THEN None
                          ELSE IF from_club.competition_id = to_club.competition_id
                               THEN 1 ELSE 0,
          tier_difference |-> IF ~both THEN None ELSE TierOr1(to_club) - TierOr1(from_club),
          user_destination_cooccurrence |-> u] :
            u \in get_latest_signal_value(store, "pair", NULL, "user_destination_cooccurrence",
                                          as_of, player_id, to_club_id)}

\* build_feature_vector: player features, to_ and from_ club features, pair
\* features, merged in that order.
build_feature_vector(store, player_id, from_club_id, to_club_id, as_of) ==
    {[player |-> pf, to_club |-> tf, from_club |-> ff, pair |-> xf] :
        pf \in build_player_features(store, player_id, as_of),
        tf \in build_club_features(store, to_club_id, as_of),
        ff \in build_club_features(store, from_club_id, as_of),
        xf \in build_pair_features(store, player_id, from_club_id, to_club_id, as_of)}

(***************************************************************************)
(* Training-set build                                                      *)
(***************************************************************************)

\* The guard with > in place of >=: a feature date at the transfer date passes.
validate_training_label_time_travel_late(transfer_date, feature_date, horizon_days, player_id) ==
    ~(feature_date > transfer_date)

\* validate_training_label_time_travel: TRUE when it returns, FALSE when it
\* raises DataLeakageError.
validate_training_label_time_travel(transfer_date, feature_date, horizon_days, player_id) ==
    ~(feature_date >= transfer_date)

\* The subsets of S with k elements: the results of random.sample(S, k).
Sample(S, k) == {x \in SUBSET S : Cardinality(x) = k}

\* A row of the returned frame.
FrameRow(transfer, to_club_id, label, feature_date, features) ==
    [transfer |-> transfer.copy, player_id |-> transfer.player_id, to_club_id |-> to_club_id,
     label |-> label, transfer_date |-> transfer.transfer_date,
     feature_date |-> feature_date, features |-> features]

\* The frames the negative loop may add for the transfers in todo: for each
\* one, three sampled clubs that are neither its destination nor its origin.
RECURSIVE NegativeRows(_, _, _)
NegativeRows(store, todo, horizon_days) ==
    IF todo = {} THEN {{}}
    ELSE LET transfer == CHOOSE t \in todo : TRUE
             feature_date == transfer.transfer_date - horizon_days
             all_clubs == {c.id : c \in {x \in clubs : x.is_active}}
             pool == {c \in all_clubs :
                         c # transfer.to_club_id /\ c # transfer.from_club_id}
             rows_for(neg_club) ==
                 {FrameRow(transfer, neg_club, 0, feature_date, f) :
                     f \in build_feature_vector(store, transfer.player_id,
                                                transfer.from_club_id, neg_club, feature_date)}
             one_of(S) == {g \in [S -> UNION {rows_for(c) : c \in S}] :
                              \A c \in S : g[c] \in rows_for(c)}
             rest == NegativeRows(store, todo \ {transfer}, horizon_days)
         IN  UNION {UNION {{{g[c] : c \in negative_clubs} \cup r : r \in rest} :
                              g \in one_of(negative_clubs)} :
                       negative_clubs \in Sample(pool, Min(3, Cardinality(all_clubs) - 2))}

\* The positive rows: one per transfer that passes the validation.
RECURSIVE PositiveRows(_, _, _)
PositiveRows(store, todo, horizon_days) ==
    IF todo = {} THEN {{}}
    ELSE LET transfer == CHOOSE t \in todo : TRUE
             feature_date == transfer.transfer_date - horizon_days
             rest == PositiveRows(store, todo \ {transfer}, horizon_days)
         IN  IF ~validate_training_label_time_travel(transfer.transfer_date, feature_date,
                                                      horizon_days, transfer.player_id)
             THEN rest    \* DataLeakageError: logged, continue
             ELSE {{FrameRow(transfer, transfer.to_club_id, 1, feature_date, f)} \cup r :
                      f \in build_feature_vector(store, transfer.player_id,
                                                 transfer.from_club_id, transfer.to_club_id,
                                                 feature_date),
                      r \in rest}

\* build_training_features (random.sample raises when fewer than two clubs
\* are active; the build then returns nothing).
build_training_features(as_of, lookback_days, horizon_days) ==
    LET cutoff_date == as_of - lookback_days
        positives == {t \in transfer_events :
                         /\ t.transfer_date >= cutoff_date /\ t.transfer_date <= as_of
                         /\ ~t.is_superseded
                         /\ t.transfer_type \in {"permanent", "loan", "loan_with_option"}
                         /\ t.from_club_id # NULL}
    IN  /\ positives # {} => Cardinality({c \in clubs : c.is_active}) >= 2
        /\ \E pos \in PositiveRows(signal_events, positives, horizon_days),
              neg \in NegativeRows(signal_events, positives, horizon_days) :
              training_frame' = [horizon_days |-> horizon_days, rows |-> pos \cup neg]
        /\ UNCHANGED <<signal_events, user_events, response, transfer_events, candidate_sets,
                       feature_snapshots, prediction_snapshots, candidates, clubs, players,
                       model_versions>>

(***************************************************************************)
(* Specification Training: the training-set build over recorded transfers, *)
(* for every cut-off and for horizons on both sides of zero.               *)
(***************************************************************************)

\* Six clubs: the player's club, a league rival and four clubs elsewhere.
ClubsTraining ==
    ClubsSmall \cup {Club("c4", "LL", "La Liga", "Spain", 1),
                     Club("c5", "CH", "Championship", "England", 2),
                     Club("c6", "CH", "Championship", "England", 2)}

Transfer(player_id, from_club_id, to_club_id, transfer_date, transfer_type) ==
    [copy |-> 1, player_id |-> player_id, from_club_id |-> from_club_id,
     to_club_id |-> to_club_id, transfer_date |-> transfer_date,
     transfer_type |-> transfer_type, is_superseded |-> FALSE]

\* The recorded transfers: one or two moves of the player, on any day.
TransferLogs ==
    {{Transfer("p1", "c2", "c1", d, "permanent")} : d \in Times}
    \cup {{Transfer("p1", "c3", "c2", 0, "loan"), Transfer("p1", "c2", "c1", d, "permanent")} :
             d \in {1, 2}}
    \cup {{Transfer("p1", NULL, "c1", 1, "free")}}

\* --horizon is any integer.
TrainingHorizons == {0 - 1, 0, 1, 90}

InitTraining ==
    /\ signal_events = {}
    /\ user_events = {}
    /\ response = 0
    /\ transfer_events \in TransferLogs
    /\ training_frame = [horizon_days |-> None, rows |-> {}]
    /\ candidate_sets = {}
    /\ feature_snapshots = {}
    /\ prediction_snapshots = {}
    /\ candidates = <<>>
    /\ clubs = ClubsTraining
    /\ players = PlayersFixture
    /\ model_versions = {}
    /\ InitJobs

NextTraining ==
    \E as_of \in Times, horizon_days \in TrainingHorizons :
        build_training_features(as_of, 730, horizon_days) /\ UNCHANGED <<job_vars, api_vars>>

SpecTraining == InitTraining /\ [][NextTraining]_vars

\* C4: every row of the training frame, label 1 or label 0, has feature_date =
\* transfer_date - horizon_days and feature_date strictly earlier than its
\* transfer_date, for every horizon_days (so a transfer that fails the label
\* validation contributes no row).
C4_FeatureDateBeforeTransfer ==
    \A r \in training_frame.rows :
        /\ r.feature_date = r.transfer_date - training_frame.horizon_days
        /\ r.feature_date < r.transfer_date

(***************************************************************************)
(* Candidate generation.  A candidate is [club_id, source, score]; scores  *)
(* are held in 1/300 (the sources use twentieths, thirtieths, tenths and   *)
(* hundredths); the reason string is left out.  Each source returns the    *)
(* set of lists it may produce.                                            *)
(***************************************************************************)

\* The order of club ids (uuids) that ORDER BY club_id uses.
ClubIds ==
    <<"c1", "c2", "c3", "c4", "c5", "c6", "c7", "c8", "c9", "c10", "c11", "c12", "c13",
      "c14", "c15", "c16", "c17", "c18", "c19", "c20", "c21", "c22">>

ClubNo(id) == CHOOSE i \in 1..Len(ClubIds) : ClubIds[i] = id

\* The ids of S in ascending order.
RECURSIVE SortedIds(_)
SortedIds(S) ==
    IF S = {} THEN <<>>
    ELSE LET first == CHOOSE x \in S : \A y \in S : ClubNo(x) <= ClubNo(y)
         IN  <<first>> \o SortedIds(S \ {first})

\* The sequences of n distinct elements of S.
RECURSIVE InjSeqs(_, _)
InjSeqs(S, n) ==
    IF n = 0 \/ S = {} THEN {<<>>}
    ELSE UNION {{<<x>> \o rest : rest \in InjSeqs(S \ {x}, n - 1)} : x \in S}

\* list[:n]
Take(list, n) == SubSeq(list, 1, Min(n, Len(list)))

\* sorted(list, key=<field>, reverse=True): a stable sort, largest key first.
RECURSIVE StableSortDesc(_, _)
StableSortDesc(list, key) ==
    IF list = <<>> THEN <<>>
    ELSE LET sorted == StableSortDesc(SubSeq(list, 1, Len(list) - 1), key)
             x == list[Len(list)]
             ahead == Cardinality({i \in 1..Len(sorted) : sorted[i][key] >= x[key]})
         IN  SubSeq(sorted, 1, ahead) \o <<x>> \o SubSeq(sorted, ahead + 1, Len(sorted))

\* CandidateConfig
league_top_n == 8
social_mention_threshold == 2
social_max_candidates == 5
user_cooccurrence_threshold == 3
user_max_candidates == 5
constraint_max_candidates == 5
random_candidates == 5
max_total_candidates == 20

\* (SELECT value_num FROM signal_events WHERE <column> = :id AND signal_type
\* = :type AND observed_at <= :as_of AND effective_from <= :as_of ORDER BY
\* effective_from DESC LIMIT 1): the values the subquery may yield.
latest_subquery(store, column, id, signal_type, as_of) ==
    LET rows == {r \in store :
                    /\ r[column] = id
                    /\ r.signal_type = signal_type
                    /\ r.observed_at <= as_of
                    /\ r.effective_from <= as_of}
        first == {r \in rows : \A q \in rows : q.effective_from <= r.effective_from}
    IN  IF rows = {} THEN {None} ELSE {r.value_num : r \in first}

\* COALESCE(<club_league_position subquery>, 99)
league_position(store, club_id, as_of) ==
    {IF v = None THEN 99 ELSE v :
        v \in latest_subquery(store, "club_id", club_id, "club_league_position", as_of)}

\* The rows of a league query: every assignment of a position to each club,
\* in every order that ORDER BY league_position ASC allows, cut at the limit.
league_rows(store, ids, as_of, limit, max_position) ==
    LET positions == {f \in [ids -> UNION {league_position(store, c, as_of) : c \in ids}] :
                         \A c \in ids : f[c] \in league_position(store, c, as_of)}
        listed(f) == {c \in ids : f[c] <= max_position}
        ordered(f) == {s \in InjSeqs(listed(f), Cardinality(listed(f))) :
                          \A i \in 1..(Len(s) - 1) : f[s[i]] <= f[s[i + 1]]}
    IN  UNION {{[i \in 1..Min(limit, Len(s)) |-> [id |-> s[i], league_position |-> f[s[i]]]] :
                   s \in ordered(f)} : f \in positions}

\* get_league_candidates
get_league_candidates(store, player_id, current_club_id, as_of) ==
    LET found == {c \in clubs : c.id = current_club_id}
        current_club == CHOOSE c \in found : TRUE
        same_league == {c.id : c \in {x \in clubs :
                           /\ x.competition_id = current_club.competition_id
                           /\ x.id # current_club_id
                           /\ x.is_active}}
        top_5_leagues == {"Premier League", "La Liga", "Bundesliga", "Serie A", "Ligue 1"}
        other_league == {c.id : c \in {x \in clubs :
                            /\ x.comp_name \in top_5_leagues
                            /\ x.competition_id # current_club.competition_id
                            /\ x.id # current_club_id
                            /\ x.is_active}}
        same(rows) == [i \in 1..Len(rows) |->
                          [club_id |-> rows[i].id, source |-> "league",
                           score |-> 300 - 15 * rows[i].league_position]]
        other(rows) == [i \in 1..Len(rows) |->
                           [club_id |-> rows[i].id, source |-> "league",
                            score |-> 240 - 10 * rows[i].league_position]]
    IN  IF found = {} THEN {<<>>}
        ELSE {same(a) \o other(b) :
                 a \in league_rows(store, same_league, as_of, league_top_n, 1000),
                 b \in league_rows(store, other_league, as_of, 10, 6)}

\* The rows of SELECT DISTINCT ON (s.club_id) ... ORDER BY s.club_id,
\* s.effective_from DESC over the pair signals of a player: one row per club,
\* clubs in id order, the value that of a row with the greatest effective_from
\* among the rows at or above the threshold.
pair_signal_rows(store, player_id, current_club_id, signal_type, as_of, threshold) ==
    LET rows == {r \in store :
                    /\ r.player_id = player_id
                    /\ r.signal_type = signal_type
                    /\ r.club_id # NULL
                    /\ r.club_id # current_club_id
                    /\ r.club_id \in {c.id : c \in clubs}
                    /\ r.observed_at <= as_of
                    /\ r.effective_from <= as_of
                    /\ r.value_num # None /\ r.value_num >= threshold}
        of_club(c) == {r \in rows : r.club_id = c}
        first(c) == {r.value_num : r \in {x \in of_club(c) :
                        \A q \in of_club(c) : q.effective_from <= x.effective_from}}
        ids == {r.club_id : r \in rows}
        order == SortedIds(ids)
    IN  {[i \in 1..Len(order) |-> [club_id |-> order[i], value |-> f[order[i]]]] :
            f \in {g \in [ids -> {r.value_num : r \in rows}] : \A c \in ids : g[c] \in first(c)}}

\* get_social_candidates
get_social_candidates(store, player_id, current_club_id, as_of) ==
    {LET top == Take(StableSortDesc(social_signals, "value"), social_max_candidates)
     IN  [i \in 1..Len(top) |->
             [club_id |-> top[i].club_id, source |-> "social",
              score |-> 30 * Min(top[i].value, 10)]] :
        social_signals \in pair_signal_rows(store, player_id, current_club_id,
                                            "social_mention_velocity", as_of,
                                            social_mention_threshold)}

\* get_user_attention_candidates
get_user_attention_candidates(store, player_id, current_club_id, as_of) ==
    {LET top == Take(StableSortDesc(cooccurrence_signals, "value"), user_max_candidates)
     IN  [i \in 1..Len(top) |->
             [club_id |-> top[i].club_id, source |-> "user_attention",
              score |-> 3 * Min(top[i].value, 100)]] :
        cooccurrence_signals \in pair_signal_rows(store, player_id, current_club_id,
                                                  "user_destination_cooccurrence", as_of,
                                                  user_cooccurrence_threshold)}

\* EXTRACT(YEAR FROM AGE(:as_of_date, date_of_birth)), in whole years.
AgeYears(as_of, date_of_birth) == ((as_of - date_of_birth) * 100) \div 36525

RECURSIVE SumOf(_, _)
SumOf(S, field) ==
    IF S = {} THEN 0
    ELSE LET x == CHOOSE y \in S : TRUE IN x[field] + SumOf(S \ {x}, field)

\* The score get_constraint_fit_candidates gives a club, or None when the club
\* is not kept (score > 0.3 is evaluated in floating point, where 0.2 + 0.1
\* exceeds 0.3 and 0.0 + 0.3 does not).
constraint_score(club, position, player_value, net_spend_value, as_of) ==
    LET squad == {p \in players :
                     p.current_club_id = club.id /\ p.position = position /\ p.is_active}
        position_count == Cardinality(squad)
        dated == {[id |-> p.id, years |-> AgeYears(as_of, p.date_of_birth)] :
                     p \in {x \in squad : x.date_of_birth # None}}
        aging == dated # {} /\ SumOf(dated, "years") >= 30 * Cardinality(dated)
        net_spend == IF net_spend_value = None THEN 0 ELSE net_spend_value
        need == IF position_count <= 2 THEN 120 ELSE IF position_count <= 3 THEN 60 ELSE 0
        age == IF aging THEN 90 ELSE 0
        budget == IF net_spend > 0
                  THEN (IF 10 * player_value <= 3 * net_spend THEN 90 ELSE 0)
                  ELSE (IF 0 - net_spend < player_value * 2 THEN 30 ELSE 0)
        tier == IF club.tier = 1 THEN 30 ELSE 0
        score == need + age + budget + tier
        kept == score > 90 \/ (score = 90 /\ need = 60)
    IN  IF kept THEN Min(score, 300) ELSE None

\* get_constraint_fit_candidates
get_constraint_fit_candidates(store, player_id, current_club_id, as_of) ==
    LET found == {p \in players : p.id = player_id}
        player == CHOOSE p \in found : TRUE
        potential == {c \in clubs :
                         c.id # current_club_id /\ c.is_active /\ c.tier # None /\ c.tier <= 2}
        ids == {c.id : c \in potential}
        club(id) == CHOOSE c \in potential : c.id = id
        net_spends == {f \in [ids -> UNION {latest_subquery(store, "club_id", c,
                                                "club_net_spend_12m", as_of) : c \in ids}] :
                          \A c \in ids : f[c] \in latest_subquery(store, "club_id", c,
                                                                  "club_net_spend_12m", as_of)}
        scored(order, market_value, f) ==
            LET player_value == IF market_value = None THEN 0 ELSE market_value
                score(id) == constraint_score(club(id), player.position, player_value,
                                              f[id], as_of)
                kept == SelectSeq(order, LAMBDA id : score(id) # None)
            IN  [i \in 1..Len(kept) |->
                    [club_id |-> kept[i], source |-> "constraint_fit", score |-> score(kept[i])]]
    IN  IF found = {} THEN {<<>>}
        ELSE {Take(StableSortDesc(scored(order, market_value, f), "score"),
                   constraint_max_candidates) :
                 order \in InjSeqs(ids, Cardinality(ids)),
                 market_value \in latest_subquery(store, "player_id", player_id,
                                                  "market_value", as_of),
                 f \in net_spends}

\* get_random_candidates: ORDER BY RANDOM() LIMIT random_candidates * 3, then
\* the first random_candidates clubs that are not candidates yet.
get_random_candidates(player_id, current_club_id, existing_candidate_ids) ==
    LET pool == {c.id : c \in {x \in clubs :
                    x.id # current_club_id /\ x.is_active /\ x.tier # None /\ x.tier <= 3}}
        fresh == pool \ existing_candidate_ids
        limit == Min(random_candidates * 3, Cardinality(pool))
        \* how many fresh clubs the limited query may hold
        in_limit == {n \in 0..Cardinality(fresh) :
                        n <= limit /\ limit - n <= Cardinality(pool \ fresh)}
    IN  UNION {{[i \in 1..Len(s) |-> [club_id |-> s[i], source |-> "random", score |-> 30]] :
                   s \in InjSeqs(fresh, Min(random_candidates, n))} : n \in in_limit}

\* Appending every club of list, seen before or not.
AppendAll(all_candidates, list) == all_candidates \o list

\* all_candidates after appending the clubs of list not seen before.
RECURSIVE AppendUnseen(_, _)
AppendUnseen(all_candidates, list) ==
    IF list = <<>> THEN all_candidates
    ELSE AppendUnseen(
             IF \E i \in 1..Len(all_candidates) : all_candidates[i].club_id = list[1].club_id
             THEN all_candidates ELSE Append(all_candidates, list[1]),
             Tail(list))

SourceCount(list, source) == Cardinality({i \in 1..Len(list) : list[i].source = source})

\* generate_candidates_for_player: the results it may return.
generate_candidates_for_player(store, player_id, as_of, horizon_days) ==
    LET found == {p \in players : p.id = player_id /\ p.current_club_id # NULL}
        player == CHOOSE p \in found : TRUE
        current_club_id == player.current_club_id
        before_random ==
            {AppendUnseen(AppendUnseen(AppendUnseen(AppendUnseen(<<>>, l), s), u), k) :
                l \in get_league_candidates(store, player_id, current_club_id, as_of),
                s \in get_social_candidates(store, player_id, current_club_id, as_of),
                u \in get_user_attention_candidates(store, player_id, current_club_id, as_of),
                k \in get_constraint_fit_candidates(store, player_id, current_club_id, as_of)}
        with_random ==
            UNION {{AppendUnseen(all, r) :
                       r \in get_random_candidates(player_id, current_club_id,
                                {all[i].club_id : i \in 1..Len(all)})} : all \in before_random}
        result(all, market_value, contract_months) ==
            LET all_candidates == Take(StableSortDesc(all, "score"), max_total_candidates)
            IN  [error |-> FALSE, player_id |-> player_id, from_club_id |-> current_club_id,
                 as_of |-> as_of, horizon_days |-> horizon_days,
                 total_candidates |-> Len(all_candidates),
                 source_counts |->
                     [source \in {"league", "social", "user_attention", "constraint_fit",
                                  "random"} |-> SourceCount(all_candidates, source)],
                 candidates |-> all_candidates,
                 player_context |->
                     [name |-> player.name, position |-> player.position,
                      age |-> IF player.date_of_birth = None THEN None
                              ELSE AgeYears(as_of, player.date_of_birth),
                      market_value |-> market_value,
                      contract_months_remaining |-> contract_months]]
    IN  IF found = {} THEN {[error |-> TRUE]}
        ELSE {result(all, market_value, contract_months) :
                 all \in with_random,
                 market_value \in get_signal_value_strict(store, "player", player_id,
                                      "market_value", as_of, NULL, NULL),
                 contract_months \in get_signal_value_strict(store, "player", player_id,
                                      "contract_months_remaining", as_of, NULL, NULL)}

\* INSERT INTO candidate_sets ... ON CONFLICT (player_id, as_of, horizon_days)
\* DO UPDATE SET candidates_json, player_context_json, total_candidates
save_candidate_set(table, result) ==
    LET conflict == {r \in table :
                        /\ r.player_id = result.player_id
                        /\ r.as_of = result.as_of
                        /\ r.horizon_days = result.horizon_days}
        row == [player_id |-> result.player_id, as_of |-> result.as_of,
                horizon_days |-> result.horizon_days, from_club_id |-> result.from_club_id,
                total_candidates |-> result.total_candidates,
                source_counts |-> result.source_counts,
                candidates_json |-> result.candidates,
                player_context_json |-> result.player_context]
    IN  IF conflict = {} THEN table \cup {row}
        ELSE (table \ conflict)
             \cup {[r EXCEPT !.candidates_json = result.candidates,
                             !.player_context_json = result.player_context,
                             !.total_candidates = result.total_candidates] : r \in conflict}

\* The number of candidate_sets rows the specifications let a player have.
MaxCandidateSets == 1

\* The table holds no more rows of a player than the bound.
WithinCandidateSets(table) ==
    \A p \in players : Cardinality({r \in table : r.player_id = p.id}) <= MaxCandidateSets

\* The club ids of a candidate list.
ClubIdList(list) == [i \in 1..Len(list) |-> list[i].club_id]

\* candidates:generate for the fixture's player: run_candidate_generation
\* over every active player with a club, saving each result.
run_candidate_generation(as_of, horizon_days) ==
    /\ \E player \in {p \in players : p.is_active /\ p.current_club_id # NULL} :
          \E result \in generate_candidates_for_player(signal_events, player.id, as_of,
                                                       horizon_days) :
              /\ ~result.error
              /\ candidate_sets' = save_candidate_set(candidate_sets, result)
              /\ WithinCandidateSets(candidate_sets')
              /\ candidates' = ClubIdList(result.candidates)
    /\ UNCHANGED <<signal_events, user_events, response, transfer_events, training_frame,
                   feature_snapshots, prediction_snapshots, clubs, players, model_versions>>

(***************************************************************************)
(* Candidate generation on a fixed store                                   *)
(***************************************************************************)

\* A league fixture with more third-tier clubs than the random source picks:
\* the player's club and one league rival in the Premier League, six clubs in
\* a third-tier league.
ClubsCandidates ==
    {Club("c1", "PL", "Premier League", "England", 1),
     Club("c2", "PL", "Premier League", "England", 1)}
    \cup {Club(ClubIds[i], "NL", "National League", "England", 3) : i \in 3..8}

\* A signal_events row as an ingest leaves it.
Signal(entity_type, player_id, club_id, signal_type, value_num, observed_at, effective_from) ==
    [copy |-> 1, entity_type |-> entity_type, player_id |-> player_id, club_id |-> club_id,
     signal_type |-> signal_type, value_num |-> value_num, source |-> "transfermarkt",
     confidence |-> 90, observed_at |-> observed_at, effective_from |-> effective_from,
     effective_to |-> None]

\* The stores candidate generation runs on: empty, with a co-occurrence
\* signal towards c3, and with a league table entry for c2 as well.
CandidateStores ==
    {{},
     {Signal("club_player_pair", "p1", "c3", "user_destination_cooccurrence", 50, 0, 0)},
     {Signal("club_player_pair", "p1", "c3", "user_destination_cooccurrence", 50, 0, 0),
      Signal("club", NULL, "c2", "club_league_position", 4, 0, 0)}}

\* The (as_of, horizon_days) arguments of the candidate runs.
CandidateRuns == {1} \X {90}

\* A fixture with more candidates than max_total_candidates: three league
\* rivals of the player's third-tier club, ten more third-tier clubs, five
\* clubs of higher tiers and three further third-tier clubs.
ClubsMany ==
    {Club(ClubIds[i], "NL", "National League", "England", 3) : i \in 1..4}
    \cup {Club(ClubIds[i], "NLN", "National League North", "England", 3) : i \in 5..14}
    \cup {Club(ClubIds[i], "CH", "Championship", "England", 2) : i \in 15..17}
    \cup {Club(ClubIds[i], "ED", "Eredivisie", "Netherlands", 1) : i \in 18..19}
    \cup {Club(ClubIds[i], "NLS", "National League South", "England", 3) : i \in 20..22}

\* Its store: league positions for two of the rivals, the player's market
\* value, social signals towards c5..c9, co-occurrence signals towards c2
\* and c10..c14, and net spends of c15..c19, all known from time 0.
StoreMany ==
    {Signal("club", NULL, "c2", "club_league_position", 1, 0, 0),
     Signal("club", NULL, "c3", "club_league_position", 5, 0, 0),
     Signal("player", "p1", NULL, "market_value", 100, 0, 0),
     Signal("club_player_pair", "p1", "c2", "user_destination_cooccurrence", 90, 0, 0),
     Signal("club", NULL, "c15", "club_net_spend_12m", 10, 0, 0),
     Signal("club", NULL, "c16", "club_net_spend_12m", 0 - 50, 0, 0),
     Signal("club", NULL, "c17", "club_net_spend_12m", 1000, 0, 0),
     Signal("club", NULL, "c18", "club_net_spend_12m", 0 - 50, 0, 0),
     Signal("club", NULL, "c19", "club_net_spend_12m", 1000, 0, 0)}
    \cup {Signal("club_player_pair", "p1", ClubIds[i], "social_mention_velocity", i - 3, 0, 0) :
             i \in 5..9}
    \cup {Signal("club_player_pair", "p1", ClubIds[i], "user_destination_cooccurrence",
                 10 * (i - 9), 0, 0) : i \in 10..14}

\* The (clubs, store) pairs candidate generation starts from.
CandidateFixtures ==
    {[clubs |-> ClubsCandidates, store |-> store] : store \in CandidateStores}
    \cup {[clubs |-> ClubsMany, store |-> StoreMany]}

InitCandidates ==
    /\ \E fixture \in CandidateFixtures :
          /\ signal_events = fixture.store
          /\ clubs = fixture.clubs
    /\ user_events = {}
    /\ response = 0
    /\ transfer_events = {}
    /\ training_frame = [horizon_days |-> None, rows |-> {}]
    /\ candidate_sets = {}
    /\ feature_snapshots = {}
    /\ prediction_snapshots = {}
    /\ candidates = <<>>
    /\ players = PlayersFixture
    /\ model_versions = {}
    /\ InitJobs

NextCandidates ==
    \E run \in CandidateRuns : run_candidate_generation(run[1], run[2]) /\ UNCHANGED <<job_vars, api_vars>>

SpecCandidates == InitCandidates /\ [][NextCandidates]_vars

\* The clubs of a stored candidate list.
CandidateClubs(candidates_json) ==
    {candidates_json[i].club_id : i \in 1..Len(candidates_json)}

\* C5: a second candidate generation for the same (player, as_of,
\* horizon_days) on an unchanged store leaves the stored candidate set of the
\* triple holding the same clubs, the clubs of the random source included.
C5_RegenerationSameSet ==
    [][signal_events' = signal_events =>
          \A old \in candidate_sets : \A new \in candidate_sets' :
              (/\ new.player_id = old.player_id
               /\ new.as_of = old.as_of
               /\ new.horizon_days = old.horizon_days)
              => CandidateClubs(new.candidates_json) = CandidateClubs(old.candidates_json)]_vars

(***************************************************************************)
(* Bulk feature build                                                      *)
(***************************************************************************)

\* settings.candidate_clubs_per_player
candidate_clubs_per_player == 20

\* features.get_candidate_clubs: the club sets the call may return.  LIMIT
\* without ORDER BY and ORDER BY RANDOM() return any rows of the right number.
get_candidate_clubs(store, player_id, current_club_id, as_of, max_candidates) ==
    LET current == {c \in clubs : c.id = current_club_id}
        current_comp == IF current = {} THEN NULL
                        ELSE (CHOOSE c \in current : TRUE).competition_id
        same_league == {c.id : c \in {x \in clubs :
                           /\ x.competition_id = current_comp /\ current_comp # NULL
                           /\ x.id # current_club_id
                           /\ x.is_active}}
        other == {c.id : c \in {x \in clubs :
                     /\ x.tier = 1
                     /\ x.id # current_club_id
                     /\ x.competition_id # current_comp /\ current_comp # NULL
                     /\ x.is_active}}
        attention == {r.club_id : r \in {x \in store :
                         /\ x.player_id = player_id
                         /\ x.signal_type = "user_destination_cooccurrence"
                         /\ x.effective_from <= as_of
                         /\ x.club_id # NULL}}
        pool(existing) == {c.id : c \in {x \in clubs :
                              x.id # current_club_id /\ x.is_active /\ x.id \notin existing}}
        fill(existing) ==
            IF Cardinality(existing) < max_candidates
            THEN {existing \cup r :
                     r \in Sample(pool(existing),
                                  Min(max_candidates - Cardinality(existing),
                                      Cardinality(pool(existing))))}
            ELSE Sample(existing, max_candidates)
    IN  UNION {fill(a \cup b \cup c) :
                  a \in Sample(same_league, Min(5, Cardinality(same_league))),
                  b \in Sample(other, Min(8, Cardinality(other))),
                  c \in Sample(attention, Min(5, Cardinality(attention)))}

\* The names of a feature vector, in the order build_feature_vector fills
\* the dict.
FeatureNames ==
    <<"age", "position_encoded", "market_value", "contract_months_remaining",
      "goals_last_10", "assists_last_10", "minutes_last_5", "social_mention_velocity",
      "user_attention_velocity", "to_club_tier", "to_club_league_position",
      "to_club_points_per_game", "to_club_net_spend_12m", "from_club_tier",
      "from_club_league_position", "from_club_points_per_game", "from_club_net_spend_12m",
      "same_country", "same_league", "tier_difference", "user_destination_cooccurrence">>

\* features[name] of a feature vector; player features are absent when the
\* player row was not found.
FeatureValue(fv, name) ==
    CASE name \in {"age", "position_encoded", "market_value", "contract_months_remaining",
                   "goals_last_10", "assists_last_10", "minutes_last_5",
                   "social_mention_velocity", "user_attention_velocity"} -> fv.player[name]
      [] name = "to_club_tier" -> fv.to_club.club_tier
      [] name = "to_club_league_position" -> fv.to_club.club_league_position
      [] name = "to_club_points_per_game" -> fv.to_club.club_points_per_game
      [] name = "to_club_net_spend_12m" -> fv.to_club.club_net_spend_12m
      [] name = "from_club_tier" -> fv.from_club.club_tier
      [] name = "from_club_league_position" -> fv.from_club.club_league_position
      [] name = "from_club_points_per_game" -> fv.from_club.club_points_per_game
      [] name = "from_club_net_spend_12m" -> fv.from_club.club_net_spend_12m
      [] OTHER -> fv.pair[name]

\* The feature dict as the list of its items.
FeatureItems(fv) ==
    LET names == SelectSeq(FeatureNames, LAMBDA n :
                     ~(fv.player.none /\ n \in {FeatureNames[i] : i \in 1..9}))
    IN  [i \in 1..Len(names) |-> [name |-> names[i], value |-> FeatureValue(fv, names[i])]]

\* run_feature_build: DELETE the feature_snapshots rows of as_of, then one
\* upserted row per active player with a club and candidate club.
run_feature_build(as_of) ==
    LET todo == {p \in players : p.is_active /\ p.current_club_id # NULL}
        kept == {r \in feature_snapshots : r.as_of # as_of}
        rows_of(player, chosen, vectors) ==
            {[player_id |-> player.id, candidate_club_id |-> c, as_of |-> as_of,
              features |-> FeatureItems(vectors[c])] : c \in chosen}
        vectors_of(player, chosen) ==
            {f \in [chosen -> UNION {build_feature_vector(signal_events, player.id,
                                         player.current_club_id, c, as_of) : c \in chosen}] :
                \A c \in chosen : f[c] \in build_feature_vector(signal_events, player.id,
                                               player.current_club_id, c, as_of)}
        built(player) ==
            UNION {{rows_of(player, chosen, vectors) : vectors \in vectors_of(player, chosen)} :
                      chosen \in get_candidate_clubs(signal_events, player.id,
                                     player.current_club_id, as_of, candidate_clubs_per_player)}
    IN  /\ \E rows \in [todo -> UNION {built(p) : p \in todo}] :
              /\ \A p \in todo : rows[p] \in built(p)
              /\ feature_snapshots' = kept \cup UNION {rows[p] : p \in todo}
        /\ UNCHANGED <<signal_events, user_events, response, transfer_events, training_frame,
                       candidate_sets, prediction_snapshots, candidates, clubs, players,
                       model_versions>>

(***************************************************************************)
(* Scoring                                                                 *)
(***************************************************************************)

\* generate_snapshot_id: SNAP-<player>-<to club>-H<horizon>-<as_of>, the ids
\* cut to their first eight characters (the fixture's ids are shorter).
generate_snapshot_id(player_id, to_club_id, horizon, as_of) ==
    <<"SNAP", player_id, IF to_club_id = NULL THEN "ANY" ELSE to_club_id, horizon, as_of>>

\* round(a / b) for a >= 0 and b > 0, ties to the even neighbour.
RoundHalfEven(a, b) ==
    LET q == a \div b
        r == a % b
    IN  IF 2 * r < b THEN q
        ELSE IF 2 * r > b THEN q + 1
        ELSE IF q % 2 = 0 THEN q ELSE q + 1

RECURSIVE SeqSum(_, _)
SeqSum(list, field) ==
    IF list = <<>> THEN 0 ELSE list[1][field] + SeqSum(Tail(list), field)

\* The importances run_predictions uses when no model is registered, in
\* units of 1/10000.
dummy_feature_importances ==
    [contract_months_remaining |-> 2500, market_value |-> 2000,
     user_destination_cooccurrence |-> 1500, age |-> 1000, same_league |-> 1000,
     tier_difference |-> 1000, social_mention_velocity |-> 1000]

\* compute_driver_contributions with top_n = 5: the drivers dict as the list
\* of its items, values in units of 1/10000.
compute_driver_contributions(feature_items, feature_importances) ==
    LET n == Len(feature_items)
        values == [i \in 1..n |-> IF feature_items[i].value = None THEN 0
                                  ELSE feature_items[i].value]
        max == CHOOSE v \in {values[i] : i \in 1..n} : \A j \in 1..n : values[j] <= v
        min == CHOOSE v \in {values[i] : i \in 1..n} : \A j \in 1..n : values[j] >= v
        importance(i) == IF feature_items[i].name \in DOMAIN feature_importances
                         THEN feature_importances[feature_items[i].name] ELSE 0
        \* contribution = importance * normalized, as numerator and denominator
        num(i) == IF max # min THEN importance(i) * (values[i] - min) ELSE importance(i)
        den == IF max # min THEN max - min ELSE 2
        positive == SelectSeq([i \in 1..n |-> i], LAMBDA i : num(i) > 0)
        drivers == [k \in 1..Len(positive) |->
                       [name |-> feature_items[positive[k]].name,
                        value |-> RoundHalfEven(num(positive[k]), den)]]
        sorted_drivers == Take(StableSortDesc(drivers, "value"), 5)
        total == SeqSum(sorted_drivers, "value")
    IN  IF total > 0
        THEN [k \in 1..Len(sorted_drivers) |->
                 [name |-> sorted_drivers[k].name,
                  value |-> RoundHalfEven(10000 * sorted_drivers[k].value, total)]]
        ELSE sorted_drivers

\* get_latest_model: the rows of ORDER BY created_at DESC LIMIT 1.
get_latest_model(model_name, horizon_days) ==
    LET rows == {m \in model_versions :
                    /\ m.model_name = model_name
                    /\ m.horizon_days = horizon_days
                    /\ m.status \in {"completed", "deployed"}}
    IN  {m \in rows : \A q \in rows : q.created_at <= m.created_at}

\* Offsets np.random.uniform(-0.05, 0.05) may add to the rounded probability,
\* in units of 1/10000: both ends of the range and its middle.
NoiseSamples == {0 - 500, 0, 500}

\* The probabilities the dummy scorer may give, in units of 1/10000.
dummy_probability(fv) ==
    LET cm == fv.player.contract_months_remaining
        contract_months == IF fv.player.none \/ cm = None \/ cm = 0 THEN 24 ELSE cm
        base_prob == 1000 + (IF contract_months < 12 THEN 3000
                             ELSE IF contract_months < 24 THEN 1500 ELSE 0)
                          + (IF fv.pair.same_league \notin {None, 0} THEN 500 ELSE 0)
    IN  {Min(9500, base_prob + noise) : noise \in NoiseSamples}

\* The CHECK constraints of prediction_snapshots.
prediction_snapshots_checks(r) ==
    /\ r.probability >= 0 /\ r.probability <= 10000
    /\ r.horizon_days > 0
    /\ r.window_end > r.window_start

\* INSERT INTO prediction_snapshots ... ON CONFLICT (snapshot_id) DO UPDATE
\* SET probability, drivers_json
upsert_prediction(table, row) ==
    LET conflict == {r \in table : r.snapshot_id = row.snapshot_id}
    IN  IF conflict = {} THEN table \cup {row}
        ELSE (table \ conflict)
             \cup {[r EXCEPT !.probability = row.probability,
                             !.drivers_json = row.drivers_json] : r \in conflict}

\* get_candidates_for_prediction: the stored list when the triple has a row,
\* a generated and saved one otherwise.
get_candidates_for_prediction(table, store, player_id, as_of, horizon_days) ==
    LET cached == {r \in table : /\ r.player_id = player_id
                                 /\ r.as_of = as_of
                                 /\ r.horizon_days = horizon_days}
    IN  IF cached # {}
        THEN {[table |-> table, list |-> ClubIdList(r.candidates_json)] : r \in cached}
        ELSE {IF result.error THEN [table |-> table, list |-> <<>>]
              ELSE [table |-> save_candidate_set(table, result),
                    list |-> ClubIdList(result.candidates)] :
                 result \in generate_candidates_for_player(store, player_id, as_of,
                                                           horizon_days)}

\* The scorer run_predictions sets up for a horizon: the registered model
\* when one is found and its artifact loads, the dummy scorer when none is
\* registered, and the dummy scorer without importances when loading fails.
scorers(horizon_days) ==
    LET model_name == <<"transfer_xgb", horizon_days, "d">>
        found == get_latest_model(model_name, horizon_days)
    IN  IF found = {}
        THEN {[model_name |-> model_name, model_version |-> "v0-demo", artifact |-> FALSE,
               predict_proba |-> <<>>, feature_importances |-> dummy_feature_importances]}
        ELSE {IF m.artifact_loads
              THEN [model_name |-> model_name, model_version |-> m.model_version,
                    artifact |-> TRUE, predict_proba |-> m.predict_proba,
                    feature_importances |-> m.feature_importances]
              ELSE [model_name |-> model_name, model_version |-> m.model_version,
                    artifact |-> FALSE, predict_proba |-> <<>>,
                    feature_importances |-> <<>>] : m \in found}

\* The rows run_predictions may build for one candidate club.
prediction_rows(scorer, player, to_club_id, as_of, horizon_days) ==
    LET row(fv, probability) ==
            [snapshot_id |-> generate_snapshot_id(player.id, to_club_id, horizon_days, as_of),
             model_version |-> scorer.model_version, model_name |-> scorer.model_name,
             player_id |-> player.id, from_club_id |-> player.current_club_id,
             to_club_id |-> to_club_id, horizon_days |-> horizon_days,
             probability |-> probability,
             drivers_json |-> compute_driver_contributions(FeatureItems(fv),
                                                           scorer.feature_importances),
             features_json |-> FeatureItems(fv), as_of |-> as_of,
             window_start |-> as_of, window_end |-> as_of + horizon_days]
        probabilities(fv) ==
            IF scorer.artifact
            THEN {scorer.predict_proba[IF fv.pair.same_league = 1 THEN 2 ELSE 1]}
            ELSE dummy_probability(fv)
    IN  UNION {{row(fv, probability) : probability \in probabilities(fv)} :
                  fv \in build_feature_vector(signal_events, player.id,
                                              player.current_club_id, to_club_id, as_of)}

\* The prediction_snapshots tables after the inserts for the clubs of list,
\* in list order; failed is set once an insert violates a CHECK constraint.
RECURSIVE score_candidates(_, _, _, _, _, _)
score_candidates(tables, scorer, player, list, as_of, horizon_days) ==
    IF list = <<>> THEN tables
    ELSE score_candidates(
             UNION {{IF prediction_snapshots_checks(row) /\ ~t.failed
                     THEN [table |-> upsert_prediction(t.table, row), failed |-> FALSE]
                     ELSE [table |-> t.table, failed |-> TRUE] :
                        row \in prediction_rows(scorer, player, list[1], as_of,
                                                horizon_days)} : t \in tables},
             scorer, player, Tail(list), as_of, horizon_days)

\* The state run_predictions may leave after the players of todo, from the
\* states in outcomes.  The players come in the order the query returns
\* them, which it does not fix.  A player whose statements hit a CHECK
\* violation, or who comes after one in the aborted transaction, raises and
\* counts as an error; any other player counts as processed.
RECURSIVE score_players(_, _, _, _, _, _)
score_players(outcomes, scorer, todo, as_of, horizon_days, max_predictions_per_player) ==
    IF todo = {} THEN outcomes
    ELSE LET after(o, player) ==
                 IF o.failed
                 THEN {[o EXCEPT !.errors = @ + 1, !.error_players = @ \cup {player.id}]}
                 ELSE UNION {{[candidate_sets |-> got.table,
                               prediction_snapshots |-> t.table,
                               failed |-> t.failed, candidates |-> got.list,
                               players_processed |->
                                   o.players_processed + (IF t.failed THEN 0 ELSE 1),
                               errors |-> o.errors + (IF t.failed THEN 1 ELSE 0),
                               error_players |->
                                   o.error_players
                                   \cup (IF t.failed THEN {player.id} ELSE {})] :
                                 t \in score_candidates(
                                           {[table |-> o.prediction_snapshots,
                                             failed |-> o.failed]},
                                           scorer, player,
                                           Take(got.list, max_predictions_per_player),
                                           as_of, horizon_days)} :
                                got \in get_candidates_for_prediction(o.candidate_sets,
                                            signal_events, player.id, as_of, horizon_days)}
         IN  UNION {score_players(UNION {after(o, player) : o \in outcomes}, scorer,
                                  todo \ {player}, as_of, horizon_days,
                                  max_predictions_per_player) : player \in todo}

(***************************************************************************)
(* Materialized view player_market_view                                    *)
(***************************************************************************)

\* DISTINCT ON (player_id, to_club_id, horizon_days) over the snapshots in
\* ascending as_of order: the oldest snapshot of every key.
latest_predictions_oldest(table) ==
    LET key(s) == <<s.player_id, s.to_club_id, s.horizon_days>>
        keys == {key(s) : s \in table}
        firsts(k) == {s \in table : /\ key(s) = k
                                    /\ \A q \in table : key(q) = k => q.as_of >= s.as_of}
    IN  {{f[k] : k \in keys} : f \in {g \in [keys -> table] : \A k \in keys : g[k] \in firsts(k)}}

\* CTE latest_predictions: SELECT DISTINCT ON (player_id, to_club_id,
\* horizon_days) ... ORDER BY player_id, to_club_id, horizon_days, as_of DESC.
\* The results it may give: for every key one of its snapshots with the
\* greatest as_of.
latest_predictions(table) ==
    LET key(s) == <<s.player_id, s.to_club_id, s.horizon_days>>
        keys == {key(s) : s \in table}
        firsts(k) == {s \in table : /\ key(s) = k
                                    /\ \A q \in table : key(q) = k => q.as_of <= s.as_of}
    IN  {{f[k] : k \in keys} : f \in {g \in [keys -> table] : \A k \in keys : g[k] \in firsts(k)}}

\* CTEs latest_market_value and latest_contract: SELECT DISTINCT ON
\* (player_id) ... WHERE signal_type = ... AND entity_type = 'player' ORDER BY
\* player_id, effective_from DESC.  The rows it may give for one player; the
\* LEFT JOIN gives nulls when there is none.
latest_player_signal(store, signal_type, player_id) ==
    LET rows == {r \in store : /\ r.signal_type = signal_type
                               /\ r.entity_type = "player"
                               /\ r.player_id = player_id}
        firsts == {r \in rows : \A q \in rows : q.effective_from <= r.effective_from}
    IN  IF rows = {} THEN {[value_num |-> None, observed_at |-> None]}
        ELSE {[value_num |-> r.value_num, observed_at |-> r.observed_at] : r \in firsts}

\* The contents a refresh may give player_market_view: the latest prediction
\* of every key joined with its player and the player's latest market value
\* and contract signals (the columns copied from the clubs rows are left
\* out).
player_market_view_query(table, store, people) ==
    LET ids == {p.id : p \in people}
        signals(signal_type) ==
            {f \in [ids -> UNION {latest_player_signal(store, signal_type, id) : id \in ids}] :
                \A id \in ids : f[id] \in latest_player_signal(store, signal_type, id)}
        row(lp, p, lmv, lc) ==
            [snapshot_id |-> lp.snapshot_id, player_id |-> lp.player_id,
             player_name |-> p.name, player_position |-> p.position,
             player_dob |-> p.date_of_birth, from_club_id |-> lp.from_club_id,
             to_club_id |-> lp.to_club_id, horizon_days |-> lp.horizon_days,
             probability |-> lp.probability, drivers_json |-> lp.drivers_json,
             model_version |-> lp.model_version, model_name |-> lp.model_name,
             as_of |-> lp.as_of, window_start |-> lp.window_start,
             window_end |-> lp.window_end,
             market_value |-> lmv.value_num, market_value_observed_at |-> lmv.observed_at,
             contract_months_remaining |-> lc.value_num,
             contract_observed_at |-> lc.observed_at]
        joined(latest, lmv, lc) ==
            UNION {{row(lp, p, lmv[p.id], lc[p.id]) : p \in {q \in people : q.id = lp.player_id}} :
                      lp \in latest}
    IN  UNION {UNION {{joined(latest, lmv, lc) :
                         lc \in signals("contract_months_remaining")} :
                      lmv \in signals("market_value")} :
                 latest \in latest_predictions(table)}

\* predict:run.  One transaction holds every write of the run: a CHECK
\* violation aborts it and the closing commit then persists nothing.  The
\* run ends with a refresh of player_market_view over what is committed.
\* (The specifications bound the candidate_sets rows it leaves.)
run_predictions(as_of, horizon_days, max_predictions_per_player) ==
    /\ \E scorer \in scorers(horizon_days) :
          \E o \in score_players({[candidate_sets |-> candidate_sets,
                                   prediction_snapshots |-> prediction_snapshots,
                                   failed |-> FALSE, candidates |-> <<>>,
                                   players_processed |-> 0, errors |-> 0,
                                   error_players |-> {}]},
                                 scorer,
                                 {p \in players : p.is_active /\ p.current_club_id # NULL},
                                 as_of, horizon_days, max_predictions_per_player) :
              /\ candidates' = o.candidates
              /\ stats' = [job |-> "predict", players_processed |-> o.players_processed,
                           errors |-> o.errors, error_players |-> o.error_players]
              /\ IF o.failed
                 THEN UNCHANGED <<candidate_sets, prediction_snapshots>>
                 ELSE /\ candidate_sets' = o.candidate_sets
                      /\ prediction_snapshots' = o.prediction_snapshots
    /\ player_market_view' \in player_market_view_query(prediction_snapshots', signal_events,
                                                         players)
    /\ UNCHANGED <<signal_events, user_events, response, transfer_events, training_frame,
                   feature_snapshots, clubs, players, model_versions>>

(***************************************************************************)
(* Feature build and scoring on a fixed store                              *)
(***************************************************************************)

\* The stores the batch jobs run on: empty; a contract and a co-occurrence
\* signal known from time 0; a co-occurrence signal towards the player's own
\* club that took effect at 0 and was observed only at 2.
ScorerStores ==
    {{},
     {Signal("player", "p1", NULL, "contract_months_remaining", 6, 0, 0),
      Signal("club_player_pair", "p1", "c2", "user_destination_cooccurrence", 10, 0, 0)},
     {Signal("club_player_pair", "p1", "c1", "user_destination_cooccurrence", 50, 2, 0)}}

\* A registered model: its probability for a destination outside and inside
\* the player's league, and the importances stored with it.
ModelVersion(artifact_loads) ==
    [model_name |-> <<"transfer_xgb", 90, "d">>, model_version |-> "v1", horizon_days |-> 90,
     status |-> "completed", created_at |-> 0, artifact_loads |-> artifact_loads,
     predict_proba |-> <<2000, 7000>>,
     feature_importances |-> [contract_months_remaining |-> 5000,
                              user_destination_cooccurrence |-> 5000]]

\* The model registries: none registered, one whose artifact loads, one
\* whose artifact does not.
ModelRegistries == {{}, {ModelVersion(TRUE)}, {ModelVersion(FALSE)}}

\* The arguments of the batch runs: as_of, horizon_days (the CLI takes any
\* integer) and max_predictions_per_player.
ScorerTimes == {1, 2}
ScorerHorizons == {0, 90}
ScorerLimits == {1, 10}

InitScorer ==
    /\ signal_events \in ScorerStores
    /\ model_versions \in ModelRegistries
    /\ user_events = {}
    /\ response = 0
    /\ transfer_events = {}
    /\ training_frame = [horizon_days |-> None, rows |-> {}]
    /\ candidate_sets = {}
    /\ feature_snapshots = {}
    /\ prediction_snapshots = {}
    /\ candidates = <<>>
    /\ clubs = ClubsSmall
    /\ players = PlayersFixture
    /\ InitJobs

NextScorer ==
    \/ \E as_of \in ScorerTimes, horizon_days \in ScorerHorizons, limit \in ScorerLimits :
          /\ run_predictions(as_of, horizon_days, limit)
          /\ WithinCandidateSets(candidate_sets')
          /\ UNCHANGED <<daily, api_vars>>
    \/ \E as_of \in ScorerTimes : run_feature_build(as_of) /\ UNCHANGED <<job_vars, api_vars>>

SpecScorer == InitScorer /\ [][NextScorer]_vars

\* The rows of a store known and in effect at T.
KnownAt(store, T) == {r \in store : r.observed_at <= T /\ r.effective_from <= T}

\* C3: every stored candidate and feature value for as-of T is one the jobs
\* produce from the rows with observed_at <= T and effective_from <= T alone:
\* the club list of a candidate set, the candidate club of a feature snapshot
\* and its feature values.
C3_OnlyRowsKnownAtT ==
    /\ \A r \in candidate_sets :
          \E result \in generate_candidates_for_player(KnownAt(signal_events, r.as_of),
                            r.player_id, r.as_of, r.horizon_days) :
              ~result.error /\ result.candidates = r.candidates_json
    /\ \A r \in feature_snapshots :
          \E p \in players :
              /\ p.id = r.player_id
              /\ \E chosen \in get_candidate_clubs(KnownAt(signal_events, r.as_of), p.id,
                                   p.current_club_id, r.as_of, candidate_clubs_per_player) :
                    r.candidate_club_id \in chosen
              /\ \E fv \in build_feature_vector(KnownAt(signal_events, r.as_of), p.id,
                               p.current_club_id, r.candidate_club_id, r.as_of) :
                    r.features = FeatureItems(fv)

\* The feature_snapshots rows of an as_of.
FeatureRowsAt(table, as_of) == {r \in table : r.as_of = as_of}

\* C6: with the store unchanged, a re-run of scoring or of the feature build
\* leaves every row it upserts with the payload the earlier run wrote: the
\* probability, drivers and features of each snapshot, and the feature rows
\* of the as_of.
C6_RerunSamePayload ==
    [][signal_events' = signal_events =>
          /\ \A old \in prediction_snapshots : \A new \in prediction_snapshots' :
                new.snapshot_id = old.snapshot_id =>
                    /\ new.probability = old.probability
                    /\ new.drivers_json = old.drivers_json
                    /\ new.features_json = old.features_json
          /\ \A as_of \in ScorerTimes :
                (/\ FeatureRowsAt(feature_snapshots, as_of) # {}
                 /\ FeatureRowsAt(feature_snapshots', as_of) # {})
                => FeatureRowsAt(feature_snapshots', as_of)
                       = FeatureRowsAt(feature_snapshots, as_of)]_vars

\* C7: every stored prediction snapshot has a probability in [0,1], a
\* positive horizon, a window that ends after it starts, and drivers that
\* are non-negative and sum to at most 1.
C7_SnapshotRanges ==
    \A s \in prediction_snapshots :
        /\ s.probability >= 0 /\ s.probability <= 10000
        /\ s.horizon_days > 0
        /\ s.window_end > s.window_start
        /\ \A i \in 1..Len(s.drivers_json) : s.drivers_json[i].value >= 0
        /\ SeqSum(s.drivers_json, "value") <= 10000

\* C10: a prediction_snapshots row, once written, stays as it is: no step
\* changes the probability, drivers, features or model_version of a stored
\* snapshot.
C10_SnapshotsNeverOverwritten ==
    [][\A s \in prediction_snapshots : s \in prediction_snapshots']_vars

(***************************************************************************)
(* Transfer ledger                                                         *)
(***************************************************************************)

\* The transfer_events rows the admin API may hold in the ledger runs.
MaxLedgerRows == 3

\* generate_event_id: TL-<date>-<player>-<from club | ORIGIN>, the ids cut to
\* their first eight characters (the fixture's ids are shorter).
generate_event_id(transfer_date, player_id, from_club_id) ==
    <<"TL", transfer_date, player_id, IF from_club_id = NULL THEN "ORIGIN" ELSE from_club_id>>

\* The CHECK constraints of transfer_events (confidence in hundredths).
transfer_events_checks(r) ==
    /\ r.source_confidence >= 0 /\ r.source_confidence <= 100
    /\ r.sell_on_percent = None \/ (r.sell_on_percent >= 0 /\ r.sell_on_percent <= 100)

\* The foreign keys of transfer_events.
transfer_events_foreign_keys(r) ==
    /\ r.player_id \in {p.id : p \in players}
    /\ r.from_club_id = NULL \/ r.from_club_id \in {c.id : c \in clubs}
    /\ r.to_club_id \in {c.id : c \in clubs}

\* A ledger row that arrives already marked superseded.
TransferEventRowSuperseded(transfer, id, event_id) ==
    [copy |-> id, event_id |-> event_id, player_id |-> transfer.player_id,
     from_club_id |-> transfer.from_club_id, to_club_id |-> transfer.to_club_id,
     transfer_type |-> transfer.transfer_type, transfer_date |-> transfer.transfer_date,
     source_confidence |-> transfer.source_confidence,
     sell_on_percent |-> transfer.sell_on_percent,
     is_superseded |-> TRUE, superseded_by |-> NULL]

\* The row create_transfer_event builds: TransferEvent(id=uuid4(), ...,
\* is_superseded=False), superseded_by left NULL.
TransferEventRow(transfer, id, event_id) ==
    [copy |-> id, event_id |-> event_id, player_id |-> transfer.player_id,
     from_club_id |-> transfer.from_club_id, to_club_id |-> transfer.to_club_id,
     transfer_type |-> transfer.transfer_type, transfer_date |-> transfer.transfer_date,
     source_confidence |-> transfer.source_confidence,
     sell_on_percent |-> transfer.sell_on_percent,
     is_superseded |-> FALSE, superseded_by |-> NULL]

\* POST /admin/transfer_events: 409 when the event_id exists, 201 when the
\* row commits, 500 when the commit fails on a constraint.
create_transfer_event(transfer) ==
    LET event_id == generate_event_id(transfer.transfer_date, transfer.player_id,
                                      transfer.from_club_id)
        existing == {r \in transfer_events : r.event_id = event_id}
        db_transfer == TransferEventRow(transfer, Cardinality(transfer_events) + 1, event_id)
    IN  /\ Cardinality(transfer_events) < MaxLedgerRows
        /\ IF existing # {}
           THEN /\ response' = 409
                /\ UNCHANGED transfer_events
           ELSE IF transfer_events_checks(db_transfer)
                   /\ transfer_events_foreign_keys(db_transfer)
                THEN /\ transfer_events' = transfer_events \cup {db_transfer}
                     /\ response' = 201
                ELSE /\ response' = 500
                     /\ UNCHANGED transfer_events
        /\ UNCHANGED <<signal_events, user_events, training_frame, candidate_sets,
                       feature_snapshots, prediction_snapshots, candidates, clubs, players,
                       model_versions>>

\* The request bodies of the ledger runs: moves of p1 to c1 or to a club
\* that does not exist, from no club or from c2 or c3.
TransferRequests ==
    [player_id : {"p1"}, from_club_id : {NULL, "c2", "c3"}, to_club_id : {"c1", "c9"},
     transfer_type : {"permanent", "loan"}, transfer_date : Times,
     source_confidence : {100, 150}, sell_on_percent : {None}]

InitLedger ==
    /\ signal_events = {}
    /\ user_events = {}
    /\ response = 0
    /\ InitOtherTables
    /\ InitJobs

NextLedger ==
    \E transfer \in TransferRequests : create_transfer_event(transfer) /\ UNCHANGED <<job_vars, api_vars>>

SpecLedger == InitLedger /\ [][NextLedger]_vars

\* Following superseded_by from row for at most fuel steps: whether the walk
\* ended at a row without a successor, and the row it stopped at.
RECURSIVE FollowSupersededBy(_, _, _)
FollowSupersededBy(ledger, row, fuel) ==
    LET next == {r \in ledger : r.copy = row.superseded_by}
    IN  IF row.superseded_by = NULL THEN [ended |-> TRUE, row |-> row]
        ELSE IF fuel = 0 \/ next = {} THEN [ended |-> FALSE, row |-> row]
        ELSE FollowSupersededBy(ledger, CHOOSE r \in next : TRUE, fuel - 1)

C12_ScoresInUnitRange ==
    \A r \in candidate_sets :
        \A i \in 1..Len(r.candidates_json) :
            r.candidates_json[i].score >= 0 /\ r.candidates_json[i].score <= 300

\* The first entry of a list of proposals that names the club.
FirstProposal(proposed, club_id) ==
    proposed[CHOOSE i \in 1..Len(proposed) :
                 /\ proposed[i].club_id = club_id
                 /\ \A j \in 1..(i - 1) : proposed[j].club_id # club_id]

\* What C13 asks of a stored list, given the proposals of the five sources in
\* their fixed order.
DedupedSortedCut(list, proposed) ==
    LET listed == {list[i].club_id : i \in 1..Len(list)}
    IN  /\ \A i, j \in 1..Len(list) : list[i].club_id = list[j].club_id => i = j
        /\ \A i \in 1..Len(list) :
              /\ \E j \in 1..Len(proposed) : proposed[j].club_id = list[i].club_id
              /\ list[i] = FirstProposal(proposed, list[i].club_id)
        /\ \A i \in 1..(Len(list) - 1) : list[i].score >= list[i + 1].score
        /\ Len(list) <= max_total_candidates
        /\ \A j \in 1..Len(proposed) :
              proposed[j].club_id \notin listed =>
                  \A i \in 1..Len(list) :
                      FirstProposal(proposed, proposed[j].club_id).score <= list[i].score

\* C13: every stored candidate list names each club once, carries for each
\* club the source and score of the earliest source that proposed it (order
\* league, social, user attention, constraint-fit, random), is ordered by
\* score descending, has at most max_total_candidates entries, and leaves out
\* no proposed club that scores strictly higher than a listed one.
C13_DedupedSortedCut ==
    \A r \in candidate_sets :
        \E l \in get_league_candidates(signal_events, r.player_id, r.from_club_id, r.as_of),
           s \in get_social_candidates(signal_events, r.player_id, r.from_club_id, r.as_of),
           u \in get_user_attention_candidates(signal_events, r.player_id, r.from_club_id,
                                               r.as_of),
           k \in get_constraint_fit_candidates(signal_events, r.player_id, r.from_club_id,
                                               r.as_of) :
            \E rnd \in get_random_candidates(r.player_id, r.from_club_id,
                           {x.club_id : x \in {(l \o s \o u \o k)[i] :
                                                  i \in 1..Len(l \o s \o u \o k)}}) :
                DedupedSortedCut(r.candidates_json, l \o s \o u \o k \o rnd)

\* C13 witness: a stored list of max_total_candidates entries in which c2,
\* proposed by the league source and by user attention, is a league entry,
\* and from which a proposed league rival was cut.
C13_Witness ==
    \E r \in candidate_sets :
        LET list == r.candidates_json
        IN  /\ Len(list) = max_total_candidates
            /\ \E i \in 1..Len(list) : list[i].club_id = "c2" /\ list[i].source = "league"
            /\ \E x \in signal_events :
                  /\ x.player_id = r.player_id /\ x.club_id = "c2"
                  /\ x.signal_type = "user_destination_cooccurrence"
            /\ \E c \in clubs :
                  /\ c.competition_id = "NL" /\ c.id # r.from_club_id
                  /\ c.id \notin {list[i].club_id : i \in 1..Len(list)}

(***************************************************************************)
(* The candidate cache of the scorer                                       *)
(***************************************************************************)

\* The candidate_sets rows stored for a triple.
StoredFor(player_id, as_of, horizon_days) ==
    {r \in candidate_sets : /\ r.player_id = player_id
                            /\ r.as_of = as_of
                            /\ r.horizon_days = horizon_days}

\* C14: a scoring run's request for a triple that has a stored candidate set
\* returns the stored club list in the stored order and leaves the stored row
\* as it is, and a request for a triple without a stored row generates the
\* list and leaves it stored.
C14_StoredSetServed ==
    [][\A as_of \in ScorerTimes, horizon_days \in ScorerHorizons, max \in ScorerLimits :
          run_predictions(as_of, horizon_days, max) =>
              \A p \in players :
                  LET before == StoredFor(p.id, as_of, horizon_days)
                  IN  IF before # {}
                      THEN /\ candidate_sets' = candidate_sets
                           /\ \A r \in before : candidates' = ClubIdList(r.candidates_json)
                      ELSE \E r \in candidate_sets' :
                              /\ r.player_id = p.id
                              /\ r.as_of = as_of
                              /\ r.horizon_days = horizon_days
                              /\ candidates' = ClubIdList(r.candidates_json)]_vars

(***************************************************************************)
(* Candidate regeneration while signals arrive                             *)
(***************************************************************************)

\* A fixture with a club only a pair signal can propose: the player's club
\* and a league rival in the Premier League, and a fourth-tier club.
ClubsLower ==
    {Club("c1", "PL", "Premier League", "England", 1),
     Club("c2", "PL", "Premier League", "England", 1),
     Club("c3", "NL", "National League North", "England", 4)}

\* The signals ingested between runs: user attention of p1 towards c3, below
\* and above the threshold, observed and taking effect before and after the
\* runs' as_of.
RegenerateRequests ==
    [entity_type : {"club_player_pair"}, player_id : Players, club_id : {"c3"},
     signal_type : {"user_destination_cooccurrence"}, value_num : {1, 10, 50},
     source : {"user_derived"}, confidence : {90}, observed_at : {0, 2},
     effective_from : {0, 2}, effective_to : {None}]

InitRegenerate ==
    /\ signal_events = {}
    /\ clubs = ClubsLower
    /\ user_events = {}
    /\ response = 0
    /\ transfer_events = {}
    /\ training_frame = [horizon_days |-> None, rows |-> {}]
    /\ candidate_sets = {}
    /\ feature_snapshots = {}
    /\ prediction_snapshots = {}
    /\ candidates = <<>>
    /\ players = PlayersFixture
    /\ model_versions = {}
    /\ InitJobs

NextRegenerate ==
    \/ \E signal \in RegenerateRequests : create_signal_event(signal) /\ UNCHANGED <<job_vars, api_vars>>
    \/ \E run \in CandidateRuns : run_candidate_generation(run[1], run[2]) /\ UNCHANGED <<job_vars, api_vars>>

SpecRegenerate == InitRegenerate /\ [][NextRegenerate]_vars

\* C15: candidate_sets holds at most one row per (player_id, as_of,
\* horizon_days), and in every stored row total_candidates and the five
\* per-source counts describe the stored candidates_json, so the counts sum
\* to total_candidates.
C15_StoredRowDescribesList ==
    /\ \A r1, r2 \in candidate_sets :
          (/\ r1.player_id = r2.player_id
           /\ r1.as_of = r2.as_of
           /\ r1.horizon_days = r2.horizon_days) => r1 = r2
    /\ \A r \in candidate_sets :
          /\ r.total_candidates = Len(r.candidates_json)
          /\ \A source \in DOMAIN r.source_counts :
                r.source_counts[source] = SourceCount(r.candidates_json, source)
          /\ r.source_counts["league"] + r.source_counts["social"]
               + r.source_counts["user_attention"] + r.source_counts["constraint_fit"]
               + r.source_counts["random"] = r.total_candidates

(***************************************************************************)
(* Batch jobs that stop before their closing commit                        *)
(***************************************************************************)

\* run_feature_build stopped inside its loop over the players: the DELETE of
\* the as_of's rows is committed before the loop, the rows the loop inserted
\* are not committed and are lost with the session.
run_feature_build_interrupted(as_of) ==
    /\ feature_snapshots' = {r \in feature_snapshots : r.as_of # as_of}
    /\ UNCHANGED <<signal_events, user_events, response, transfer_events, training_frame,
                   candidate_sets, prediction_snapshots, candidates, clubs, players,
                   model_versions>>

\* run_predictions stopped inside its loop over the players: nothing of the
\* run is committed.
run_predictions_interrupted(as_of, horizon_days, max_predictions_per_player) ==
    /\ \E scorer \in scorers(horizon_days) :
          \E o \in score_players({[candidate_sets |-> candidate_sets,
                                   prediction_snapshots |-> prediction_snapshots,
                                   failed |-> FALSE, candidates |-> <<>>,
                                   players_processed |-> 0, errors |-> 0,
                                   error_players |-> {}]},
                                 scorer,
                                 {p \in players : p.is_active /\ p.current_club_id # NULL},
                                 as_of, horizon_days, max_predictions_per_player) :
              candidates' = o.candidates
    /\ UNCHANGED <<signal_events, user_events, response, transfer_events, training_frame,
                   candidate_sets, feature_snapshots, prediction_snapshots, clubs, players,
                   model_versions>>

NextInterrupted ==
    \/ NextScorer
    \/ \E as_of \in ScorerTimes : run_feature_build_interrupted(as_of) /\ UNCHANGED <<job_vars, api_vars>>
    \/ \E as_of \in ScorerTimes, horizon_days \in ScorerHorizons, limit \in ScorerLimits :
          run_predictions_interrupted(as_of, horizon_days, limit) /\ UNCHANGED <<job_vars, api_vars>>

SpecInterrupted == InitScorer /\ [][NextInterrupted]_vars

\* C16: no batch job, completed or stopped on the way, removes a committed
\* row: every candidate set, feature snapshot and prediction snapshot stored
\* before a step is still stored under its key after it.
C16_CommittedRowsStay ==
    [][/\ \A r \in feature_snapshots :
             \E s \in feature_snapshots' : /\ s.player_id = r.player_id
                                           /\ s.candidate_club_id = r.candidate_club_id
                                           /\ s.as_of = r.as_of
       /\ \A r \in candidate_sets :
             \E s \in candidate_sets' : /\ s.player_id = r.player_id
                                        /\ s.as_of = r.as_of
                                        /\ s.horizon_days = r.horizon_days
       /\ \A r \in prediction_snapshots :
             \E s \in prediction_snapshots' : s.snapshot_id = r.snapshot_id]_vars

(***************************************************************************)
(* daily:run                                                               *)
(***************************************************************************)

\* The steps of cmd_daily_run in the order of its code.
StageOrder == <<"signals", "candidates", "features", "predictions">>
Stages == {StageOrder[i] : i \in 1..Len(StageOrder)}
StageNo(stage) == CHOOSE i \in 1..Len(StageOrder) : StageOrder[i] = stage

\* A pipeline whose steps are not guarded one by one: an exception raised
\* by a step ends the run.
after_stage_abort(stage, raised) ==
    IF raised \/ StageNo(stage) = Len(StageOrder) THEN "done"
    ELSE StageOrder[StageNo(stage) + 1]

\* Where cmd_daily_run goes after a step: each step has its own try/except
\* Exception, so the code after it runs whether the job returned or raised.
after_stage(stage, raised) ==
    IF StageNo(stage) = Len(StageOrder) THEN "done" ELSE StageOrder[StageNo(stage) + 1]

\* The run after a step ended with the given outcome, printed on the console.
daily_after(stage, outcome) ==
    [daily EXCEPT !.pc = after_stage(stage, outcome = "raised"),
                  !.log = Append(@, [stage |-> stage, as_of |-> daily.as_of,
                                     outcome |-> outcome])]

\* daily:run up to its first step: the options are read and as_of is set
\* once from the clock.
cmd_daily_run(horizon, skip, now) ==
    /\ daily.pc = "idle"
    /\ daily' = [pc |-> StageOrder[1], as_of |-> now, horizon |-> horizon, skip |-> skip,
                 log |-> <<>>]
    /\ UNCHANGED <<store_vars, player_market_view, stats, api_vars>>

\* STEP 1: run_signal_derivation(window="24h", as_of=as_of), unless skipped.
daily_signals ==
    /\ daily.pc = "signals"
    /\ UNCHANGED <<player_market_view, stats, api_vars>>
    /\ IF "signals" \in daily.skip
       THEN UNCHANGED store_vars /\ daily' = daily_after("signals", "skipped")
       ELSE \/ run_signal_derivation(1, daily.as_of) /\ daily' = daily_after("signals", "returned")
            \/ UNCHANGED store_vars /\ daily' = daily_after("signals", "raised")

\* STEP 2: run_candidate_generation(as_of=as_of, horizon_days=horizon).
daily_candidates ==
    /\ daily.pc = "candidates"
    /\ UNCHANGED <<player_market_view, stats, api_vars>>
    /\ IF "candidates" \in daily.skip
       THEN UNCHANGED store_vars /\ daily' = daily_after("candidates", "skipped")
       ELSE \/ /\ run_candidate_generation(daily.as_of, daily.horizon)
               /\ daily' = daily_after("candidates", "returned")
            \/ UNCHANGED store_vars /\ daily' = daily_after("candidates", "raised")

\* STEP 3: run_feature_build(as_of=as_of).
daily_features ==
    /\ daily.pc = "features"
    /\ UNCHANGED <<player_market_view, stats, api_vars>>
    /\ IF "features" \in daily.skip
       THEN UNCHANGED store_vars /\ daily' = daily_after("features", "skipped")
       ELSE \/ run_feature_build(daily.as_of) /\ daily' = daily_after("features", "returned")
            \/ UNCHANGED store_vars /\ daily' = daily_after("features", "raised")
            \/ /\ run_feature_build_interrupted(daily.as_of)
               /\ daily' = daily_after("features", "raised")

\* STEP 4: run_predictions(as_of=as_of, horizon_days=horizon), with the
\* default max_predictions_per_player.
daily_predictions ==
    /\ daily.pc = "predictions"
    /\ UNCHANGED api_vars
    /\ IF "predictions" \in daily.skip
       THEN /\ UNCHANGED <<store_vars, stats, player_market_view>>
            /\ daily' = daily_after("predictions", "skipped")
       ELSE \/ /\ run_predictions(daily.as_of, daily.horizon, 10)
               /\ WithinCandidateSets(candidate_sets')
               /\ daily' = daily_after("predictions", "returned")
            \/ /\ UNCHANGED <<store_vars, stats, player_market_view>>
               /\ daily' = daily_after("predictions", "raised")

\* The clock readings and options of the daily runs.
DailyTimes == {1, 2}
DailyHorizons == {90}

NextDaily ==
    \/ \E horizon \in DailyHorizons, skip \in SUBSET Stages, now \in DailyTimes :
          cmd_daily_run(horizon, skip, now)
    \/ daily_signals
    \/ daily_candidates
    \/ daily_features
    \/ daily_predictions

SpecDaily == InitSignalWrites /\ [][NextDaily]_vars

\* C17: the steps a daily run has gone through are, in this order, signal
\* derivation, candidate generation, feature build and scoring, every one
\* with the as_of the run started with; a step is reached only when all
\* steps before it have ended; and a finished run has gone through all four
\* steps, so every step that was not skipped has run, whether or not a step
\* before it raised.
C17_StagesInOrder ==
    /\ \A i \in 1..Len(daily.log) :
          /\ daily.log[i].stage = StageOrder[i]
          /\ daily.log[i].as_of = daily.as_of
          /\ daily.log[i].outcome = "skipped" <=> daily.log[i].stage \in daily.skip
    /\ daily.pc \in Stages => Len(daily.log) = StageNo(daily.pc) - 1
    /\ daily.pc = "done" => Len(daily.log) = Len(StageOrder)

\* A finished run whose signal derivation raised and whose later steps all
\* ran and stored candidates, features and predictions.
C17_Witness ==
    /\ daily.pc = "done"
    /\ Len(daily.log) = Len(StageOrder)
    /\ daily.log[1].outcome = "raised"
    /\ \A i \in 2..Len(StageOrder) : daily.log[i].outcome = "returned"
    /\ candidate_sets # {}
    /\ feature_snapshots # {}
    /\ prediction_snapshots # {}

(***************************************************************************)
(* Scoring runs over two players                                           *)
(***************************************************************************)

\* A fixture in which one player has no candidate club: p1 plays for the
\* only Premier League club, p2 for a fourth-tier club.
ClubsBatch ==
    {Club("c1", "PL", "Premier League", "England", 1),
     Club("c2", "NL", "National League North", "England", 4)}

PlayersBatch ==
    {[id |-> "p1", name |-> "P1", current_club_id |-> "c1", position |-> "ST",
      date_of_birth |-> None, is_active |-> TRUE],
     [id |-> "p2", name |-> "P2", current_club_id |-> "c2", position |-> "ST",
      date_of_birth |-> None, is_active |-> TRUE]}

\* The stores of the fixture: empty, and with a contract signal for either
\* player.
BatchStores ==
    {{}} \cup {{Signal("player", p, NULL, "contract_months_remaining", 6, 0, 0)} :
                  p \in {"p1", "p2"}}

InitBatch ==
    /\ signal_events \in BatchStores
    /\ model_versions \in ModelRegistries
    /\ user_events = {}
    /\ response = 0
    /\ transfer_events = {}
    /\ training_frame = [horizon_days |-> None, rows |-> {}]
    /\ candidate_sets = {}
    /\ feature_snapshots = {}
    /\ prediction_snapshots = {}
    /\ candidates = <<>>
    /\ clubs = ClubsBatch
    /\ players = PlayersBatch
    /\ InitJobs

NextBatch ==
    \/ \E as_of \in ScorerTimes, horizon_days \in ScorerHorizons, limit \in ScorerLimits :
          /\ run_predictions(as_of, horizon_days, limit)
          /\ WithinCandidateSets(candidate_sets')
          /\ UNCHANGED <<daily, api_vars>>
    \/ \E as_of \in ScorerTimes : run_feature_build(as_of) /\ UNCHANGED <<job_vars, api_vars>>

SpecBatch == InitBatch /\ [][NextBatch]_vars

\* C18: a scoring run counts every player exactly once, as processed or as
\* an error, so an error for one player does not end the iteration; and when
\* the run has ended, the rows written for each player it did not report an
\* error for are stored: the player's candidate set for the run's as_of and
\* horizon, and a prediction snapshot for each of its first
\* max_predictions_per_player candidates.
C18_ErrorsCountedRowsCommitted ==
    [][\A as_of \in ScorerTimes, horizon_days \in ScorerHorizons, max \in ScorerLimits :
          run_predictions(as_of, horizon_days, max) =>
              /\ stats'.players_processed + stats'.errors = Cardinality(players)
              /\ stats'.errors = Cardinality(stats'.error_players)
              /\ \A p \in players :
                    p.id \notin stats'.error_players =>
                        \E r \in candidate_sets' :
                            /\ r.player_id = p.id
                            /\ r.as_of = as_of
                            /\ r.horizon_days = horizon_days
                            /\ LET scored == Take(ClubIdList(r.candidates_json), max)
                               IN  \A i \in 1..Len(scored) :
                                      \E s \in prediction_snapshots' :
                                          /\ s.player_id = p.id
                                          /\ s.to_club_id = scored[i]
                                          /\ s.as_of = as_of
                                          /\ s.horizon_days = horizon_days]_vars

(***************************************************************************)
(* Scoring without a usable model                                          *)
(***************************************************************************)

\* No completed or deployed model is registered for the horizon, or the
\* registered one has an artifact that does not load.
NoUsableModel(horizon_days) ==
    LET found == get_latest_model(<<"transfer_xgb", horizon_days, "d">>, horizon_days)
    IN  found = {} \/ \E m \in found : ~m.artifact_loads

\* The horizons of the runs: one the registry has no model for and the one
\* of the registered model.
FallbackHorizons == {30, 90}

NextFallback ==
    \/ \E as_of \in ScorerTimes, horizon_days \in FallbackHorizons, limit \in ScorerLimits :
          /\ run_predictions(as_of, horizon_days, limit)
          /\ WithinCandidateSets(candidate_sets')
          /\ UNCHANGED <<daily, api_vars>>
    \/ \E as_of \in ScorerTimes : run_feature_build(as_of) /\ UNCHANGED <<job_vars, api_vars>>

SpecFallback == InitScorer /\ [][NextFallback]_vars

\* C19: a scoring run without a usable model for its horizon leaves, for
\* every player and each of the candidates it scored, a snapshot whose
\* probability is the heuristic scorer's and whose drivers are the heuristic
\* scorer's drivers for the snapshot's features.
C19_HeuristicFallback ==
    [][\A as_of \in ScorerTimes, horizon_days \in FallbackHorizons, max \in ScorerLimits :
          (run_predictions(as_of, horizon_days, max) /\ NoUsableModel(horizon_days)) =>
              \A p \in players :
                  LET scored == Take(candidates', max)
                  IN  \A i \in 1..Len(scored) :
                         \E s \in prediction_snapshots' :
                             /\ s.player_id = p.id
                             /\ s.to_club_id = scored[i]
                             /\ s.as_of = as_of
                             /\ s.horizon_days = horizon_days
                             /\ \E fv \in build_feature_vector(signal_events, p.id,
                                              p.current_club_id, scored[i], as_of) :
                                   s.probability \in dummy_probability(fv)
                             /\ s.drivers_json
                                  = compute_driver_contributions(s.features_json,
                                                                 dummy_feature_importances)]_vars

(***************************************************************************)
(* Refreshes of player_market_view                                         *)
(***************************************************************************)

\* POST /admin/rebuild/materialized, and refresh:views of the worker:
\* REFRESH MATERIALIZED VIEW CONCURRENTLY player_market_view.
refresh_materialized_views ==
    /\ player_market_view' \in player_market_view_query(prediction_snapshots, signal_events,
                                                        players)
    /\ response' = 200
    /\ UNCHANGED <<signal_events, user_events, ml_vars, stats, daily, api_vars>>

\* The stores of the view specification: empty, and with two market values
\* taking effect at the same time and a contract signal.
ViewStores ==
    {{},
     {Signal("player", "p1", NULL, "market_value", 1, 0, 0),
      Signal("player", "p1", NULL, "market_value", 2, 1, 0),
      Signal("player", "p1", NULL, "contract_months_remaining", 6, 0, 0)}}

InitView ==
    /\ signal_events \in ViewStores
    /\ model_versions \in {{}, {ModelVersion(TRUE)}}
    /\ user_events = {}
    /\ response = 0
    /\ transfer_events = {}
    /\ training_frame = [horizon_days |-> None, rows |-> {}]
    /\ candidate_sets = {}
    /\ feature_snapshots = {}
    /\ prediction_snapshots = {}
    /\ candidates = <<>>
    /\ clubs = ClubsSmall
    /\ players = PlayersFixture
    /\ InitJobs

NextView ==
    \/ \E as_of \in ScorerTimes, horizon_days \in DailyHorizons, limit \in ScorerLimits :
          /\ run_predictions(as_of, horizon_days, limit)
          /\ UNCHANGED <<daily, api_vars>>
    \/ refresh_materialized_views

SpecView == InitView /\ [][NextView]_vars

\* The key the view is unique on.
ViewKey(r) == <<r.player_id, r.to_club_id, r.horizon_days>>

\* C20: after every refresh, and as long as nothing is written afterwards,
\* player_market_view holds exactly one row for each (player_id, to_club_id,
\* horizon_days) that has a prediction snapshot and no other row, and the
\* row carries the probability, the drivers and the as_of of the key's
\* snapshot with the greatest as_of.
C20_ViewHoldsLatestSnapshot ==
    /\ {ViewKey(r) : r \in player_market_view} = {ViewKey(s) : s \in prediction_snapshots}
    /\ \A r1, r2 \in player_market_view : ViewKey(r1) = ViewKey(r2) => r1 = r2
    /\ \A r \in player_market_view :
          \E s \in prediction_snapshots :
              /\ ViewKey(s) = ViewKey(r)
              /\ \A q \in prediction_snapshots : ViewKey(q) = ViewKey(r) => q.as_of <= s.as_of
              /\ r.probability = s.probability
              /\ r.drivers_json = s.drivers_json
              /\ r.as_of = s.as_of

\* A key with an older snapshot of another probability, whose view row
\* carries the later snapshot.
C20_Witness ==
    \E r \in player_market_view :
        \E old \in prediction_snapshots :
            /\ ViewKey(old) = ViewKey(r)
            /\ old.as_of < r.as_of
            /\ old.probability # r.probability

(***************************************************************************)
(* Concurrent admin requests on the transfer ledger                        *)
(***************************************************************************)

\* The requests create_transfer_event may have between its SELECT and its
\* commit at one time.
MaxInflight == 2

\* The connections the concurrent requests arrive on.
Connections == 1..MaxInflight

\* create_transfer_event up to its first await: the event_id is generated
\* and looked up; a hit is answered 409, otherwise the handler goes on with
\* what it has read.
create_transfer_event_select(conn, transfer) ==
    LET event_id == generate_event_id(transfer.transfer_date, transfer.player_id,
                                      transfer.from_club_id)
        existing == {r \in transfer_events : r.event_id = event_id}
    IN  /\ Cardinality(transfer_events) < MaxLedgerRows
        /\ conn \notin {req.conn : req \in inflight}
        /\ IF existing # {}
           THEN /\ response' = 409
                /\ UNCHANGED inflight
           ELSE /\ inflight' = inflight \cup
                                  {[conn |-> conn, transfer |-> transfer, event_id |-> event_id]}
                /\ UNCHANGED response
        /\ UNCHANGED <<signal_events, user_events, ml_vars, job_vars, limiter, returned>>

\* The rest of create_transfer_event: db.add and db.commit.  The commit
\* fails on UNIQUE (event_id), a CHECK or a foreign key; the handler rolls
\* back and answers 500.
create_transfer_event_commit(req) ==
    LET db_transfer == TransferEventRow(req.transfer, Cardinality(transfer_events) + 1,
                                        req.event_id)
        unique == \A r \in transfer_events : r.event_id # req.event_id
    IN  /\ req \in inflight
        /\ inflight' = inflight \ {req}
        /\ IF unique /\ transfer_events_checks(db_transfer)
                     /\ transfer_events_foreign_keys(db_transfer)
           THEN /\ transfer_events' = transfer_events \cup {db_transfer}
                /\ response' = 201
           ELSE /\ response' = 500
                /\ UNCHANGED transfer_events
        /\ UNCHANGED <<signal_events, user_events, training_frame, candidate_sets,
                       feature_snapshots, prediction_snapshots, candidates, clubs, players,
                       model_versions, job_vars, limiter, returned>>

\* The request bodies of the concurrent runs: moves of p1 to c1 from no club
\* or from c2, on two dates.
ConcurrentRequests ==
    [player_id : {"p1"}, from_club_id : {NULL, "c2"}, to_club_id : {"c1"},
     transfer_type : {"permanent", "loan"}, transfer_date : {1, 2},
     source_confidence : {100}, sell_on_percent : {None}]

NextConcurrentLedger ==
    \/ \E conn \in Connections, transfer \in ConcurrentRequests :
          create_transfer_event_select(conn, transfer)
    \/ \E req \in inflight : create_transfer_event_commit(req)

SpecConcurrentLedger == InitLedger /\ [][NextConcurrentLedger]_vars

\* C21: under every interleaving of create requests the ledger never holds
\* two rows of one event_id, and a request that is answered while a row of
\* its event_id is in the ledger is answered 409 and leaves the ledger as it
\* is.
C21_OneRowPerEventIdElseConflict ==
    [][/\ \A r1, r2 \in transfer_events' : r1.event_id = r2.event_id => r1 = r2
       /\ \A req \in inflight :
             (/\ create_transfer_event_commit(req)
              /\ \E r \in transfer_events : r.event_id = req.event_id)
             => (response' = 409 /\ transfer_events' = transfer_events)]_vars

(***************************************************************************)
(* What-changed service                                                    *)
(***************************************************************************)

\* The signal types in the order of the database enum signaltypeenum, which
\* is the order ORDER BY signal_type gives.
SignalTypeOrder ==
    <<"minutes_last_5", "injuries_status", "goals_last_10", "assists_last_10",
      "club_league_position", "club_points_per_game", "club_net_spend_12m",
      "contract_months_remaining", "wage_estimate", "market_value", "release_clause",
      "social_mention_velocity", "social_sentiment", "user_attention_velocity",
      "user_destination_cooccurrence", "user_watchlist_adds">>

\* CHANGE_THRESHOLDS without the severity mappings; None for an absent key.
CHANGE_THRESHOLDS ==
    [signal_type \in {"contract_months_remaining", "market_value", "injuries_status",
                      "social_mention_velocity", "user_attention_velocity", "goals_last_10",
                      "assists_last_10", "club_league_position"} |->
        CASE signal_type = "contract_months_remaining" ->
                [threshold |-> 6, percent_change |-> None, absolute_change |-> None,
                 any_change |-> FALSE]
          [] signal_type = "market_value" ->
                [threshold |-> None, percent_change |-> 10, absolute_change |-> None,
                 any_change |-> FALSE]
          [] signal_type = "injuries_status" ->
                [threshold |-> None, percent_change |-> None, absolute_change |-> None,
                 any_change |-> TRUE]
          [] signal_type = "social_mention_velocity" ->
                [threshold |-> None, percent_change |-> 50, absolute_change |-> None,
                 any_change |-> FALSE]
          [] signal_type = "user_attention_velocity" ->
                [threshold |-> None, percent_change |-> 100, absolute_change |-> None,
                 any_change |-> FALSE]
          [] signal_type \in {"goals_last_10", "assists_last_10"} ->
                [threshold |-> None, percent_change |-> None, absolute_change |-> 2,
                 any_change |-> FALSE]
          [] OTHER ->
                [threshold |-> None, percent_change |-> None, absolute_change |-> 3,
                 any_change |-> FALSE]]

Abs(x) == IF x < 0 THEN 0 - x ELSE x

\* _get_signal_value: value_num, else value_text, else nothing (the rows of
\* the model carry no value_json).
signal_value(signal) ==
    IF signal.value_num # None THEN [kind |-> "num", num |-> signal.value_num, text |-> NULL]
    ELSE IF signal.value_text # NULL
    THEN [kind |-> "text", num |-> None, text |-> signal.value_text]
    ELSE [kind |-> "none", num |-> None, text |-> NULL]

\* old_val != new_val in Python: a number never equals a text.
values_differ(old_val, new_val) ==
    old_val # new_val

\* The severity_mapping lambda of injuries_status.
severity_mapping_text(old_val, new_val) ==
    IF new_val.text # "fit" THEN "alert" ELSE "info"

\* The severity_mapping lambdas on numbers.
severity_mapping(signal_type, old, new) ==
    CASE signal_type = "contract_months_remaining" -> IF new <= 6 THEN "alert" ELSE "warning"
      [] signal_type = "market_value" ->
            IF 100 * Abs(new - old) > 20 * Abs(old) THEN "alert" ELSE "warning"
      [] signal_type = "social_mention_velocity" ->
            IF new > old * 2 THEN "alert" ELSE "warning"
      [] signal_type = "user_attention_velocity" ->
            IF new > old * 3 THEN "alert" ELSE "warning"
      [] signal_type = "club_league_position" ->
            IF Abs(new - old) >= 5 THEN "warning" ELSE "info"
      [] OTHER -> "info"

\* _format_change_description, the text held as its fixed part and the
\* values put into it.
format_change_description(signal_type, old_val, new_val) ==
    LET text(fixed, direction, old, new) ==
            [fixed |-> fixed, direction |-> direction, old |-> old, new |-> new]
        no_value == [kind |-> "none", num |-> None, text |-> NULL]
    IN  CASE signal_type = "contract_months_remaining" ->
                text("Contract down to {new} months remaining", NULL, no_value, new_val)
          [] signal_type = "market_value" ->
                text("Market value {direction} to {new}M",
                     IF new_val.num > old_val.num THEN "up" ELSE "down", no_value, new_val)
          [] signal_type = "injuries_status" ->
                text("Injury status changed to: {new}", NULL, no_value, new_val)
          [] signal_type = "social_mention_velocity" ->
                text("Social media velocity spiked to {new}", NULL, no_value, new_val)
          [] signal_type = "user_attention_velocity" ->
                text("User attention increased to {new}", NULL, no_value, new_val)
          [] signal_type = "goals_last_10" ->
                text("Goals in last 10 games: {old} -> {new}", NULL, old_val, new_val)
          [] signal_type = "assists_last_10" ->
                text("Assists in last 10 games: {old} -> {new}", NULL, old_val, new_val)
          [] OTHER -> text("{type}: {old} -> {new}", NULL, old_val, new_val)

\* schemas.SignalDelta; change_percent is in tenths of a percent.
SignalDelta(signal_type, description, old_value, new_value, change_percent, severity, observed_at) ==
    [signal_type |-> signal_type, description |-> description, old_value |-> old_value,
     new_value |-> new_value, change_percent |-> change_percent, severity |-> severity,
     observed_at |-> observed_at]

\* _detect_delta: the delta between the oldest and the newest row of a type,
\* as a list of one, or the empty list for None.  A text value under a numeric rule does not parse as a float
\* (the texts of the model are no numerals) and gives no delta.
detect_delta(signal_type, old_signal, new_signal) ==
    LET old_val == signal_value(old_signal)
        new_val == signal_value(new_signal)
        config == CHANGE_THRESHOLDS[signal_type]
        old_num == old_val.num
        new_num == new_val.num
        delta(change_percent, severity) ==
            <<SignalDelta(signal_type,
                          format_change_description(signal_type, old_val, new_val),
                          old_val, new_val, change_percent, severity,
                          new_signal.observed_at)>>
    IN  IF signal_type \notin DOMAIN CHANGE_THRESHOLDS THEN <<>>
        ELSE IF old_val.kind = "none" \/ new_val.kind = "none" THEN <<>>
        ELSE IF config.any_change
        THEN IF values_differ(old_val, new_val)
             THEN delta(None, severity_mapping_text(old_val, new_val))
             ELSE <<>>
        ELSE IF old_val.kind = "text" \/ new_val.kind = "text" THEN <<>>
        ELSE IF config.threshold # None /\ old_num > config.threshold
                /\ config.threshold >= new_num
        THEN delta(None, severity_mapping(signal_type, old_num, new_num))
        ELSE IF config.percent_change # None /\ old_num # 0
                /\ 100 * Abs(new_num - old_num) >= config.percent_change * Abs(old_num)
        THEN delta(RoundHalfEven(1000 * Abs(new_num - old_num), Abs(old_num)),
                   severity_mapping(signal_type, old_num, new_num))
        ELSE IF config.absolute_change # None
                /\ Abs(new_num - old_num) >= config.absolute_change
        THEN delta(None, severity_mapping(signal_type, old_num, new_num))
        ELSE <<>>

\* severity_order of get_what_changed.
severity_order(severity) ==
    CASE severity = "alert" -> 0 [] severity = "warning" -> 1 [] severity = "info" -> 2
      [] OTHER -> 3

\* deltas.sort(key=(severity_order, -observed_at)): a stable sort.
RECURSIVE sort_deltas(_)
sort_deltas(list) ==
    IF list = <<>> THEN <<>>
    ELSE LET sorted == sort_deltas(SubSeq(list, 1, Len(list) - 1))
             x == list[Len(list)]
             before(d) == \/ severity_order(d.severity) < severity_order(x.severity)
                          \/ /\ severity_order(d.severity) = severity_order(x.severity)
                             /\ d.observed_at >= x.observed_at
             ahead == Cardinality({i \in 1..Len(sorted) : before(sorted[i])})
         IN  SubSeq(sorted, 1, ahead) \o <<x>> \o SubSeq(sorted, ahead + 1, Len(sorted))

\* The first loop of get_what_changed from the i-th signal type on: for every
\* type with two rows or more the delta between signal_list[0] and
\* signal_list[-1], the rows being ordered by effective_from (rows of one
\* effective_from in any order).  The set of lists the loop may build.
RECURSIVE changed_deltas(_, _)
changed_deltas(signals, i) ==
    IF i > Len(SignalTypeOrder) THEN {<<>>}
    ELSE LET signal_list == {r \in signals : r.signal_type = SignalTypeOrder[i]}
             ends == {<<oldest, newest>> \in signal_list \X signal_list :
                         /\ oldest # newest
                         /\ \A r \in signal_list :
                               /\ oldest.effective_from <= r.effective_from
                               /\ r.effective_from <= newest.effective_from}
             rest == changed_deltas(signals, i + 1)
         IN  IF Cardinality(signal_list) < 2 THEN rest
             ELSE UNION {{detect_delta(SignalTypeOrder[i], e[1], e[2]) \o tail :
                            tail \in rest} : e \in ends}

\* The second loop: a single injuries_status row with a text other than
\* "fit" (and not empty) is a new injury.
appeared_deltas(signals) ==
    LET signal_list == {r \in signals : r.signal_type = "injuries_status"}
        signal == CHOOSE r \in signal_list : TRUE
        no_value == [kind |-> "none", num |-> None, text |-> NULL]
        value == [kind |-> "text", num |-> None, text |-> signal.value_text]
    IN  IF Cardinality(signal_list) = 1 /\ signal.value_text \notin {NULL, "", "fit"}
        THEN <<SignalDelta("injuries_status",
                           [fixed |-> "New injury status: {new}", direction |-> NULL,
                            old |-> no_value, new |-> value],
                           no_value, value, None, "alert", signal.observed_at)>>
        ELSE <<>>

\* get_what_changed(db, player_id, days) called at now: the rows of the
\* player with effective_from >= now - days, the deltas sorted and cut to ten.
\* The set of lists the call may return.
get_what_changed(store, player_id, days, now) ==
    LET cutoff == now - days
        signals == {r \in store : /\ r.player_id = player_id
                                  /\ r.entity_type = "player"
                                  /\ r.effective_from >= cutoff}
    IN  {Take(sort_deltas(deltas \o appeared_deltas(signals)), 10) :
            deltas \in changed_deltas(signals, 1)}

\* GET /players/{id}: what_changed = get_what_changed(db, player_id, days=7),
\* the clock read at now.
get_player_what_changed(player_id, now) ==
    /\ returned' \in {[call |-> "get_what_changed", player_id |-> player_id, days |-> 7,
                         now |-> now, deltas |-> deltas] :
                        deltas \in get_what_changed(signal_events, player_id, 7, now)}
    /\ UNCHANGED <<store_vars, job_vars, inflight, limiter>>

\* The rows a store of the what-changed runs may hold.
MaxDeltaRows == 3

\* A player-level row with a number or a text, observed when it takes effect.
TextSignal(signal_type, value_num, value_text, effective_from) ==
    [copy |-> 1, entity_type |-> "player", player_id |-> "p1", club_id |-> NULL,
     signal_type |-> signal_type, value_num |-> value_num, value_text |-> value_text,
     source |-> "admin", confidence |-> 90, observed_at |-> effective_from,
     effective_from |-> effective_from, effective_to |-> None]

\* Injury reports and mention velocities taking effect before the window
\* (day 1), inside it (days 5 and 8) and after the time of the call (day 12).
DeltaRows ==
    {TextSignal("injuries_status", None, text, t) :
        text \in {"fit", "injured", "doubtful"}, t \in {1, 5, 8, 12}}
    \cup
    {TextSignal("social_mention_velocity", n, NULL, t) : n \in {4, 10, 30}, t \in {1, 5, 8, 12}}

DeltaStores == {store \in SUBSET DeltaRows : Cardinality(store) <= MaxDeltaRows}

InitWhatChanged ==
    /\ signal_events \in DeltaStores
    /\ user_events = {}
    /\ response = 0
    /\ InitOtherTables
    /\ InitJobs

NextWhatChanged ==
    \E player_id \in {"p1"}, now \in {10} : get_player_what_changed(player_id, now)

SpecWhatChanged == InitWhatChanged /\ [][NextWhatChanged]_vars

\* The rows of the window of a what-changed call: the player's own rows that
\* take effect days before now or later.
WindowRows(store, call) ==
    {r \in store : /\ r.player_id = call.player_id
                   /\ r.entity_type = "player"
                   /\ r.effective_from >= call.now - call.days}

\* The threshold table: whether the first and the last row of a type, by
\* effective_from, meet the rule of the type.
MeetsRule(signal_type, first, last) ==
    LET old == first.value_num
        new == last.value_num
        numbers == old # None /\ new # None
    IN  CASE signal_type = "contract_months_remaining" -> numbers /\ old > 6 /\ new <= 6
          [] signal_type = "market_value" ->
                numbers /\ old # 0 /\ 100 * Abs(new - old) >= 10 * Abs(old)
          [] signal_type = "injuries_status" -> first.value_text # last.value_text
          [] signal_type = "social_mention_velocity" ->
                numbers /\ old > 0 /\ 100 * (new - old) >= 50 * old
          [] signal_type = "user_attention_velocity" ->
                numbers /\ old > 0 /\ 100 * (new - old) >= 100 * old
          [] signal_type \in {"goals_last_10", "assists_last_10"} ->
                numbers /\ Abs(new - old) >= 2
          [] signal_type = "club_league_position" -> numbers /\ Abs(new - old) >= 3
          [] OTHER -> FALSE

\* Whether some signal type with two rows or more in the window meets its
\* rule, for one of the orders its rows may be put in.
SomeRuleMet(window) ==
    \E first, last \in window :
        /\ first # last
        /\ first.signal_type = last.signal_type
        /\ \A r \in window : r.signal_type = first.signal_type =>
              first.effective_from <= r.effective_from /\ r.effective_from <= last.effective_from
        /\ MeetsRule(first.signal_type, first, last)

\* Whether the window holds exactly one injuries_status row and that row is
\* not "fit".
OneInjuryNotFit(window) ==
    LET rows == {r \in window : r.signal_type = "injuries_status"}
    IN  Cardinality(rows) = 1 /\ \A r \in rows : r.value_text # "fit"

\* C22: a what-changed call returns the empty list when no signal type of
\* its window meets its rule of the threshold table, and a list of exactly
\* one delta, an alert, when the window holds exactly one injuries_status
\* row, which is not "fit", and nothing else meets a rule.
C22_EmptyOrOneInjuryAlert ==
    returned.call = "get_what_changed" =>
        LET window == WindowRows(signal_events, returned)
        IN  /\ (~SomeRuleMet(window) /\ ~OneInjuryNotFit(window)) => returned.deltas = <<>>
            /\ (~SomeRuleMet(window) /\ OneInjuryNotFit(window)) =>
                  /\ Len(returned.deltas) = 1
                  /\ returned.deltas[1].severity = "alert"
                  /\ returned.deltas[1].signal_type = "injuries_status"

\* The injuries_status rows of a window that may be its first, and its last,
\* by effective_from.
InjuryEnds(window) ==
    LET rows == {r \in window : r.signal_type = "injuries_status"}
    IN  [rows |-> rows,
         firsts |-> {r \in rows : \A q \in rows : r.effective_from <= q.effective_from},
         lasts |-> {r \in rows : \A q \in rows : q.effective_from <= r.effective_from}]

\* C23: when the window of a what-changed call holds two injuries_status
\* rows or more, a change from "fit" to another value gives an
\* injuries_status delta of severity alert, and a change from a value other
\* than "fit" to a different value other than "fit" gives one of severity
\* info.
C23_InjurySeverity ==
    returned.call = "get_what_changed" =>
        LET ends == InjuryEnds(WindowRows(signal_events, returned))
            delta(severity) ==
                \E i \in 1..Len(returned.deltas) :
                    /\ returned.deltas[i].signal_type = "injuries_status"
                    /\ returned.deltas[i].severity = severity
        IN  Cardinality(ends.rows) >= 2 =>
              /\ (\A first \in ends.firsts, last \in ends.lasts :
                     first.value_text = "fit" /\ last.value_text # "fit") => delta("alert")
              /\ (\A first \in ends.firsts, last \in ends.lasts :
                     /\ first.value_text # "fit"
                     /\ last.value_text # "fit"
                     /\ first.value_text # last.value_text) => delta("info")

(***************************************************************************)
(* Attention velocity over logs of player views                            *)
(***************************************************************************)

\* The events a log of the attention runs may hold.
MaxLogEvents == 4

\* Views of p1 from two sessions on days 1 to 4.
AttentionEvents ==
    {UserEvent(s, "player_view", "p1", NULL, t) : s \in {"s1", "s2"}, t \in 1..4}

AttentionLogs == {log \in SUBSET AttentionEvents : Cardinality(log) <= MaxLogEvents}

\* The clock readings of the attention runs.
AttentionTimes == {3, 4}

InitAttention ==
    /\ signal_events = {}
    /\ user_events \in AttentionLogs
    /\ response = 0
    /\ InitOtherTables
    /\ InitJobs

NextAttention ==
    \E window \in Windows, as_of \in AttentionTimes :
        run_signal_derivation(window, as_of) /\ UNCHANGED <<job_vars, api_vars>>

SpecAttention == InitAttention /\ [][NextAttention]_vars

\* The attention events of player p in the later half (T - W/2, T] and in
\* the earlier half [T - W, T - W/2] of the window.
AttentionHalves(events, p, W, T) ==
    LET counted == {e \in events : /\ e.player_id = p
                                   /\ e.event_type \in {"player_view", "watchlist_add", "share"}}
    IN  [recent |-> Cardinality({e \in counted : /\ 2 * e.occurred_at > 2 * T - W
                                                  /\ e.occurred_at <= T}),
         older |-> Cardinality({e \in counted : /\ e.occurred_at >= T - W
                                                 /\ 2 * e.occurred_at <= 2 * T - W})]

\* C24: a derivation at T over window W writes, for every player, no
\* user_attention_velocity row when recent + older < 3 and otherwise exactly
\* one row, whose value is the integer part of
\* min(10, (recent + 1) / (older + 1)) * 100.
C24_AttentionVelocityValue ==
    [][\A window \in Windows, as_of \in AttentionTimes :
          run_signal_derivation(window, as_of) =>
             \A p \in Players :
                LET halves == AttentionHalves(user_events, p, window, as_of)
                    written == {r \in signal_events' \ signal_events :
                                   /\ r.signal_type = "user_attention_velocity"
                                   /\ r.player_id = p}
                IN  IF halves.recent + halves.older < 3 THEN written = {}
                    ELSE /\ Cardinality(written) = 1
                         /\ \A r \in written :
                               r.value_num = Min(1000, ((halves.recent + 1) * 100)
                                                          \div (halves.older + 1))]_vars

(***************************************************************************)
(* Direct calls of the training label guard                                *)
(***************************************************************************)

\* The dates and horizons the guard is called with.
GuardDates == 0..5
GuardHorizons == {0, 30, 90}

\* A call of validate_training_label_time_travel, as the tests make it.
call_validate_training_label_time_travel(transfer_date, feature_date, horizon_days) ==
    /\ returned' = [call |-> "validate_training_label_time_travel",
                    transfer_date |-> transfer_date, feature_date |-> feature_date,
                    horizon_days |-> horizon_days,
                    raised |-> IF validate_training_label_time_travel(
                                      transfer_date, feature_date, horizon_days, "p1")
                               THEN NULL ELSE "DataLeakageError"]
    /\ UNCHANGED <<store_vars, job_vars, inflight, limiter>>

NextLabelGuard ==
    \E transfer_date \in GuardDates, feature_date \in GuardDates, horizon_days \in GuardHorizons :
        call_validate_training_label_time_travel(transfer_date, feature_date, horizon_days)

SpecLabelGuard == InitLedger /\ [][NextLabelGuard]_vars

window_seconds == 60

\* EXEMPT_PATHS of RateLimitMiddleware.
EXEMPT_PATHS == {"/health", "/ready", "/docs", "/openapi.json"}

\* self._requests[client_key] of the defaultdict.
requests_of(requests, client_key) ==
    IF client_key \in DOMAIN requests THEN requests[client_key] ELSE <<>>

\* [r for r in requests if r > window_start]
RECURSIVE newer_than(_, _)
newer_than(list, window_start) ==
    IF list = <<>> THEN <<>>
    ELSE (IF list[1] > window_start THEN <<list[1]>> ELSE <<>>)
         \o newer_than(Tail(list), window_start)

\* is_allowed with the rate test one request late.
is_allowed_late(lim, client_key) ==
    LET requests == newer_than(requests_of(lim.requests, client_key), lim.now - window_seconds)
        request_count == Len(requests)
        kept == [k \in DOMAIN lim.requests \cup {client_key} |->
                    IF k = client_key THEN requests ELSE lim.requests[k]]
    IN  IF request_count >= lim.burst_limit \/ request_count > lim.requests_per_minute
        THEN [allowed |-> FALSE, remaining |-> 0, requests |-> kept]
        ELSE [allowed |-> TRUE,
              remaining |-> IF lim.requests_per_minute - (request_count + 1) > 0
                            THEN lim.requests_per_minute - (request_count + 1) ELSE 0,
              requests |-> [kept EXCEPT ![client_key] = Append(requests, lim.now)]]

\* InMemoryRateLimiter.is_allowed at time lim.now: the answer and the
\* _requests it leaves.
is_allowed(lim, client_key) ==
    LET requests == newer_than(requests_of(lim.requests, client_key), lim.now - window_seconds)
        request_count == Len(requests)
        kept == [k \in DOMAIN lim.requests \cup {client_key} |->
                    IF k = client_key THEN requests ELSE lim.requests[k]]
    IN  IF request_count >= lim.burst_limit \/ request_count >= lim.requests_per_minute
        THEN [allowed |-> FALSE, remaining |-> 0, requests |-> kept]
        ELSE [allowed |-> TRUE,
              remaining |-> IF lim.requests_per_minute - (request_count + 1) > 0
                            THEN lim.requests_per_minute - (request_count + 1) ELSE 0,
              requests |-> [kept EXCEPT ![client_key] = Append(requests, lim.now)]]

\* RateLimitMiddleware.dispatch: an exempt path goes to the application
\* without a look at the limiter; otherwise the request goes on when
\* is_allowed says so and RateLimitExceeded(retry_after=60), an HTTPException
\* of status 429 with the header Retry-After, is raised when not.
dispatch(client_key, path) ==
    LET answer(status, limited, retry_after) ==
            [client_key |-> client_key, path |-> path, at |-> limiter.now, status |-> status,
             limited |-> limited, retry_after |-> retry_after]
        check == is_allowed(limiter, client_key)
    IN  /\ limiter' =
              IF path \in EXEMPT_PATHS
              THEN [limiter EXCEPT !.answers = Append(@, answer(200, FALSE, None))]
              ELSE IF ~check.allowed
              THEN [limiter EXCEPT !.requests = check.requests,
                                   !.answers = Append(@, answer(429, TRUE, 60))]
              ELSE [limiter EXCEPT !.requests = check.requests,
                                   !.answers = Append(@, answer(200, TRUE, None))]
        /\ UNCHANGED <<store_vars, job_vars, inflight, returned>>

\* time.time() moves on by half a window.
clock_tick ==
    /\ limiter' = [limiter EXCEPT !.now = @ + window_seconds \div 2]
    /\ UNCHANGED <<store_vars, job_vars, inflight, returned>>

\* The requests a limiter run sees, and the seconds it lasts.
MaxRequests == 4
MaxClock == 90

\* The limits the middleware is built with: two a minute under the default
\* burst, three a minute under a burst of two, and the defaults.
LimiterConfigs ==
    {[requests_per_minute |-> 2, burst_limit |-> 100],
     [requests_per_minute |-> 3, burst_limit |-> 2],
     [requests_per_minute |-> LimiterIdle.requests_per_minute,
      burst_limit |-> LimiterIdle.burst_limit]}

\* The client keys and paths of the requests.
LimiterRequests ==
    {<<"apikey:1", "/players">>, <<"ip:10.0.0.1", "/players">>, <<"ip:10.0.0.1", "/health">>}

InitLimiter ==
    /\ signal_events = {}
    /\ user_events = {}
    /\ response = 0
    /\ InitOtherTables
    /\ player_market_view = {}
    /\ stats = [job |-> "none"]
    /\ daily = DailyIdle
    /\ inflight = {}
    /\ returned = [call |-> "none"]
    /\ limiter \in {[LimiterIdle EXCEPT !.requests_per_minute = config.requests_per_minute,
                                        !.burst_limit = config.burst_limit] :
                       config \in LimiterConfigs}

NextLimiter ==
    \/ \E request \in LimiterRequests :
          /\ Len(limiter.answers) < MaxRequests
          /\ dispatch(request[1], request[2])
    \/ limiter.now < MaxClock /\ clock_tick

SpecLimiter == InitLimiter /\ [][NextLimiter]_vars

\* The requests of client_key the limiter let through in (t - 60, t].
AdmittedIn(answers, client_key, t) ==
    {i \in 1..Len(answers) : /\ answers[i].client_key = client_key
                             /\ answers[i].limited
                             /\ answers[i].status = 200
                             /\ answers[i].at > t - window_seconds
                             /\ answers[i].at <= t}

\* The smaller of the two limits.
AdmitLimit == Min(limiter.requests_per_minute, limiter.burst_limit)

SourceRequests ==
    [entity_type : {"club_player_pair"}, player_id : Players, club_id : {"c3"},
     signal_type : {"user_destination_cooccurrence"}, value_num : {1, 10},
     source : {"user_derived"}, confidence : {90}, observed_at : {0},
     effective_from : {0, 1}, effective_to : {None, 1}]
    \cup
    [entity_type : {"club"}, player_id : {NULL}, club_id : {"c2"},
     signal_type : {"club_league_position"}, value_num : {3},
     source : {"admin"}, confidence : {90}, observed_at : {0},
     effective_from : {0}, effective_to : {None, 1}]

NextSources ==
    \/ \E signal \in SourceRequests : create_signal_event(signal) /\ UNCHANGED <<job_vars, api_vars>>
    \/ \E run \in CandidateRuns : run_candidate_generation(run[1], run[2]) /\ UNCHANGED <<job_vars, api_vars>>

SpecSources == InitRegenerate /\ [][NextSources]_vars

\* The known truth as of T for a club, and for a pair.
ClubTruth(club_id, signal_type, T) ==
    latest_signal(signal_events,
                  [entity_type |-> "club", entity_id |-> club_id, player_id |-> NULL,
                   club_id |-> NULL], signal_type, T)

PairTruth(player_id, club_id, signal_type, T) ==
    latest_signal(signal_events,
                  [entity_type |-> "pair", entity_id |-> NULL, player_id |-> player_id,
                   club_id |-> club_id], signal_type, T)

\* C27: in the candidate set a generation run at T stores, the score of a
\* league candidate comes from the league position latest_signal gives for
\* the club at T (99 when it gives none), and a social or user attention
\* candidate is there because the value latest_signal gives for the pair at
\* T is at or above the threshold, its score coming from that value.
C27_SourcesUseKnownTruth ==
    [][\A run \in CandidateRuns :
          run_candidate_generation(run[1], run[2]) =>
             \A r \in {x \in candidate_sets' : x.as_of = run[1] /\ x.horizon_days = run[2]} :
                \A i \in 1..Len(r.candidates_json) :
                   LET e == r.candidates_json[i]
                   IN  CASE e.source = "league" ->
                               \E v \in ClubTruth(e.club_id, "club_league_position", run[1]) :
                                   LET position == IF v = None THEN 99 ELSE v
                                   IN  e.score \in {300 - 15 * position, 240 - 10 * position}
                         [] e.source = "social" ->
                               \E v \in PairTruth(r.player_id, e.club_id,
                                                  "social_mention_velocity", run[1]) :
                                   /\ v # None /\ v >= social_mention_threshold
                                   /\ e.score = 30 * Min(v, 10)
                         [] e.source = "user_attention" ->
                               \E v \in PairTruth(r.player_id, e.club_id,
                                                  "user_destination_cooccurrence", run[1]) :
                                   /\ v # None /\ v >= user_cooccurrence_threshold
                                   /\ e.score = 3 * Min(v, 100)
                         [] OTHER -> TRUE]_vars

\* C28: a value a player-level read latest_signal(player P, S, T) returns is
\* the value of an eligible row of P that has no club_id, and a value a
\* club-level read returns is that of an eligible row of the club that has
\* no player_id: rows of a (player, club) pair are not read.
C28_LevelReadsSkipPairRows ==
    \A T \in Times :
        /\ \A v \in latest_signal(signal_events, [entity_type |-> "player", entity_id |-> "p1",
                                                  player_id |-> NULL, club_id |-> NULL],
                                  "market_value", T) :
              v # None => \E r \in EligibleAt(signal_events, "market_value", T) :
                              r.player_id = "p1" /\ r.club_id = NULL /\ r.value_num = v
        /\ \A v \in latest_signal(signal_events, [entity_type |-> "club", entity_id |-> "c2",
                                                  player_id |-> NULL, club_id |-> NULL],
                                  "market_value", T) :
              v # None => \E r \in EligibleAt(signal_events, "market_value", T) :
                              r.club_id = "c2" /\ r.player_id = NULL /\ r.value_num = v

(***************************************************************************)
(* Destination candidates and the current club                             *)
(***************************************************************************)

\* C29: no destination candidate of a player is the player's current club:
\* no entry of a candidate set has the club_id of the set's from_club_id, no
\* feature snapshot has the player's current club as candidate_club_id, and
\* no prediction snapshot has to_club_id equal to from_club_id.
C29_NoCandidateIsCurrentClub ==
    /\ \A r \in candidate_sets :
          \A i \in 1..Len(r.candidates_json) : r.candidates_json[i].club_id # r.from_club_id
    /\ \A r \in feature_snapshots :
          \A p \in players : p.id = r.player_id => r.candidate_club_id # p.current_club_id
    /\ \A r \in prediction_snapshots : r.to_club_id # r.from_club_id

(***************************************************************************)
(* One value per read                                                      *)
(***************************************************************************)

\* C30: for the store as it stands and any T, a read of the latest
\* user_attention_velocity of p1 has exactly one possible result, through
\* get_signal_value_strict and through get_latest_signal_value alike, also
\* when the derivation has written several rows with the same effective_from
\* and the same observed_at.
C30_OneValuePerRead ==
    \A T \in AttentionTimes :
        /\ Cardinality(get_signal_value_strict(signal_events, "player", "p1",
                                               "user_attention_velocity", T, NULL, NULL)) = 1
        /\ Cardinality(latest_signal(signal_events,
                                     [entity_type |-> "player", entity_id |-> "p1",
                                      player_id |-> NULL, club_id |-> NULL],
                                     "user_attention_velocity", T)) = 1

====
